---- MODULE Spec2Model ----
(***************************************************************************)
(* The request engine of the SDHCI host controller driver                  *)
(* (src/devices/block/drivers/sdhci/sdhci.cc): SdmmcRequest called from    *)
(* several caller threads, StartRequestLocked, the interrupt thread with   *)
(* its four completion handlers and the error recovery, FinishRequest, and *)
(* the controller hardware as an environment that raises interrupt bits.   *)
(***************************************************************************)
EXTENDS Integers, Sequences, FiniteSets, TLC

\* ------------------------------------------------------------------ bounds
NumCallers == 2
MaxBlocks == 2

\* ------------------------------------------------------- program constants
MMC_SEND_TUNING_BLOCK == 21
SD_SEND_TUNING_BLOCK == 19
SDMMC_PAGES_COUNT == 512
kDmaDescCount == 512
Word16 == 65536

\* TLC's integers are 32-bit signed, so physical addresses and byte counts
\* are kept in units of sizeof(uint32_t) = 4 bytes: every address, offset
\* and length of the model is a multiple of 4 bytes.
Units(bytes) == bytes \div 4
PageSize == Units(4096)
kMaxDescriptorLength == Units(65536)
\* The first address the 32-bit mask 0xffff'ffff cuts: 2^32 bytes.
Limit32 == Units(65536) * 65536

Callers == 1..NumCallers
nullptr == 0
\* Who holds mtx_.
IrqThreadId == <<"irq", 0>>
NoOwner == <<"free", 0>>
CallerId(c) == <<"caller", c>>

ZX_HANDLE_INVALID == 0

\* The interrupt status bits the dispatch looks at; "error" stands for the
\* error half of the status word (irq.ErrorInterrupt()).
NormalBits == {"command_complete", "transfer_complete", "buffer_write_ready", "buffer_read_ready"}
ErrorBits == {"error"}
CardBit == {"card_interrupt"}
IrqBits == NormalBits \cup ErrorBits \cup CardBit

\* Raw response register contents the hardware may present.
\* A 32-bit register word is the tuple of its four bytes, most significant
\* first. Raw response register contents the hardware may present:
RespVals == { << <<17, 34, 51, 68>>, <<85, 102, 119, 136>>,
                 <<153, 170, 187, 204>>, <<221, 238, 255, 16>> >> }
ZeroWord == <<0, 0, 0, 0>>
NoResponse == <<ZeroWord, ZeroWord, ZeroWord, ZeroWord>>

VARIABLES
  mtx_,                   \* owner of the mutex mtx_
  cmd_req_,               \* command slot: nullptr or a request
  data_req_,              \* data slot: nullptr or a request
  data_blockid_,          \* data-phase cursor
  data_done_,             \* the "data finished early" flag
  req_completion_,        \* sync_completion_t: TRUE when signalled
  interrupt_cb_,          \* TRUE when an in-band callback is registered
  card_interrupt_masked_,
  InterruptStatus,        \* pending interrupt bits latched by the hardware
  InterruptSignalEnable,
  InterruptStatusEnable,
  SoftwareReset,          \* reset bits written by the driver, cleared by hardware
  Response,               \* the four response registers
  reqs,                   \* the sdmmc_req_t object of each caller thread
  ret,                    \* what each caller's last SdmmcRequest call returned
  pc,                     \* position of each caller thread in SdmmcRequest
  irq_pc,                 \* position of the interrupt thread in IrqThread
  irq,                    \* the interrupt word the interrupt thread read and acknowledged
  wlog,                   \* register accesses of the most recent driver step, in order
  host,                   \* quirks_, dma_boundary_alignment_ and the capabilities read at Init
  workload,               \* which caller threads exist and which requests they submit
  regs,                   \* HostControl1, HostControl2 and PowerControl
  tune,                   \* position and locals of a SdmmcPerformTuning call
  call                    \* the most recent configuration or helper call and its result

lockedVars == <<cmd_req_, data_req_, data_blockid_, data_done_, req_completion_,
                card_interrupt_masked_, InterruptStatus, InterruptSignalEnable,
                InterruptStatusEnable, SoftwareReset, reqs, wlog>>

vars == <<mtx_, cmd_req_, data_req_, data_blockid_, data_done_, req_completion_,
          interrupt_cb_, card_interrupt_masked_, InterruptStatus, InterruptSignalEnable,
          InterruptStatusEnable, SoftwareReset, Response, reqs, ret,
          pc, irq_pc, irq, wlog, host, workload, regs, tune, call>>

\* ------------------------------------------------------------ the requests
\* cmd_flags is the set of the flag bits that are set; (flags & F) is F \in flags.
SdmmcCmdRspBusy(cmd_flags) == "SDMMC_RESP_LEN_48B" \in cmd_flags

SdmmcCmdHasData(cmd_flags) == "SDMMC_RESP_DATA_PRESENT" \in cmd_flags

IsTuningCmd(cmd_idx) == cmd_idx = MMC_SEND_TUNING_BLOCK \/ cmd_idx = SD_SEND_TUNING_BLOCK

\* The requests the callers submit: command only, 136-bit response, busy
\* response, abort, programmed-I/O read and write, tuning block, DMA read
\* and DMA write.
Shape(idx, flags, blocks, dma) ==
  [cmd_idx |-> idx, cmd_flags |-> flags, blockcount |-> blocks, blocksize |-> 512,
   use_dma |-> dma, buf_offset |-> 0]

\* A DMA read of 4096 blocks of 512 bytes that starts 512 bytes into its
\* first page: 2 MiB of data over 513 pages, one more than SDMMC_PAGES_COUNT.
OversizedShape ==
  [cmd_idx |-> 18,
   cmd_flags |-> {"SDMMC_RESP_LEN_48", "SDMMC_CMD_TYPE_NORMAL", "SDMMC_RESP_DATA_PRESENT",
                  "SDMMC_CMD_READ", "SDMMC_CMD_DMA_EN"},
   blockcount |-> 4096, blocksize |-> 512, use_dma |-> TRUE, buf_offset |-> 512]

ReqShapes ==
  { Shape(13, {"SDMMC_RESP_LEN_48", "SDMMC_CMD_TYPE_NORMAL"}, 0, FALSE),
    Shape(2, {"SDMMC_RESP_LEN_136", "SDMMC_CMD_TYPE_NORMAL"}, 0, FALSE),
    Shape(7, {"SDMMC_RESP_LEN_48B", "SDMMC_CMD_TYPE_NORMAL"}, 0, FALSE),
    Shape(12, {"SDMMC_RESP_LEN_48B", "SDMMC_CMD_TYPE_ABORT"}, 0, FALSE),
    Shape(MMC_SEND_TUNING_BLOCK,
          {"SDMMC_RESP_LEN_48", "SDMMC_CMD_TYPE_NORMAL", "SDMMC_RESP_DATA_PRESENT",
           "SDMMC_CMD_READ"}, 1, FALSE),
    Shape(18, {"SDMMC_RESP_LEN_48", "SDMMC_CMD_TYPE_NORMAL", "SDMMC_RESP_DATA_PRESENT",
               "SDMMC_CMD_READ", "SDMMC_CMD_DMA_EN"}, 1, TRUE),
    Shape(25, {"SDMMC_RESP_LEN_48", "SDMMC_CMD_TYPE_NORMAL", "SDMMC_RESP_DATA_PRESENT",
               "SDMMC_CMD_DMA_EN"}, 1, TRUE) }
  \cup { Shape(18, {"SDMMC_RESP_LEN_48", "SDMMC_CMD_TYPE_NORMAL", "SDMMC_RESP_DATA_PRESENT",
                    "SDMMC_CMD_READ"}, n, FALSE) : n \in 1..MaxBlocks }
  \cup { Shape(25, {"SDMMC_RESP_LEN_48", "SDMMC_CMD_TYPE_NORMAL", "SDMMC_RESP_DATA_PRESENT"},
               MaxBlocks, FALSE) }
  \cup { OversizedShape }

\* A request object as the caller hands it in: status and response not yet
\* written by the driver, no pin handle. The fields below the line record
\* what happened to the request (they are not fields of sdmmc_req_t).
NewRequest(shape) ==
  [cmd_idx |-> shape.cmd_idx, cmd_flags |-> shape.cmd_flags,
   blockcount |-> shape.blockcount, blocksize |-> shape.blocksize,
   use_dma |-> shape.use_dma, buf_offset |-> shape.buf_offset,
   pmt |-> ZX_HANDLE_INVALID, status |-> "UNSET", response |-> NoResponse,
   \* ----
   issue |-> "NONE",        \* what the locked section of SdmmcRequest produced
   completions |-> 0,       \* times CompleteRequestLocked ran for the request
   pinned |-> 0,            \* pins taken for the request and not yet released
   fin |-> "NONE"]          \* what FinishRequest returned

NoRequest == NewRequest(Shape(0, {}, 0, FALSE))

\* --------------------------------------------------- the driver's own state
\* The state the code under mtx_ reads and writes, as one record, so that
\* the handlers compose in the order the code calls them. wlog starts empty
\* at every driver step.
Drv ==
  [cmd_req_ |-> cmd_req_, data_req_ |-> data_req_, data_blockid_ |-> data_blockid_,
   data_done_ |-> data_done_, req_completion_ |-> req_completion_,
   card_interrupt_masked_ |-> card_interrupt_masked_,
   InterruptStatus |-> InterruptStatus, InterruptSignalEnable |-> InterruptSignalEnable,
   InterruptStatusEnable |-> InterruptStatusEnable, SoftwareReset |-> SoftwareReset,
   reqs |-> reqs, wlog |-> <<>>]

SetDrv(d) ==
  /\ cmd_req_' = d.cmd_req_
  /\ data_req_' = d.data_req_
  /\ data_blockid_' = d.data_blockid_
  /\ data_done_' = d.data_done_
  /\ req_completion_' = d.req_completion_
  /\ card_interrupt_masked_' = d.card_interrupt_masked_
  /\ InterruptStatus' = d.InterruptStatus
  /\ InterruptSignalEnable' = d.InterruptSignalEnable
  /\ InterruptStatusEnable' = d.InterruptStatusEnable
  /\ SoftwareReset' = d.SoftwareReset
  /\ reqs' = d.reqs
  /\ wlog' = d.wlog

\* wlog holds <<register, bits>> pairs: a write of the register (bits not
\* recorded, {}), or for PresentState the value a poll read.
Wrote(d, names) == [d EXCEPT !.wlog = @ \o [i \in 1..Len(names) |-> <<names[i], {}>>]]

Polled(d, ps) == [d EXCEPT !.wlog = Append(@, <<"PresentState", ps>>)]

\* Variant: DMA is taken as supported on every host.
SupportsAdma2_Always == TRUE

SupportsAdma2 == host.adma2

\* WaitForReset: OK at once when no bit of the mask is set; otherwise OK if
\* the hardware clears the bits before the deadline (hw_clears) and a
\* timeout with the bits still set if it does not.
WaitForReset(sw, mask, hw_clears) ==
  IF sw \cap mask = {} THEN [st |-> "ZX_OK", sw |-> sw]
  ELSE IF hw_clears THEN [st |-> "ZX_OK", sw |-> sw \ mask]
  ELSE [st |-> "ZX_ERR_TIMED_OUT", sw |-> sw]

\* WaitForInhibit, given the last PresentState value ps it polled.
WaitForInhibit(ps, mask) == IF ps \cap mask = {} THEN "ZX_OK" ELSE "ZX_ERR_TIMED_OUT"

\* Variant: the card interrupt is enabled again whenever a request is issued.
EnableInterrupts_IgnoresMask(d) ==
  Wrote([d EXCEPT
           !.InterruptSignalEnable =
              ErrorBits \cup NormalBits \cup (IF interrupt_cb_ THEN CardBit ELSE {}),
           !.InterruptStatusEnable =
              ErrorBits \cup NormalBits \cup (IF interrupt_cb_ THEN CardBit ELSE {})],
        <<"InterruptSignalEnable", "InterruptStatusEnable">>)

EnableInterrupts(d) ==
  Wrote([d EXCEPT
           !.InterruptSignalEnable =
              ErrorBits \cup NormalBits \cup (IF interrupt_cb_ THEN CardBit ELSE {}),
           !.InterruptStatusEnable =
              ErrorBits \cup NormalBits
                \cup (IF interrupt_cb_ /\ ~d.card_interrupt_masked_ THEN CardBit ELSE {})],
        <<"InterruptSignalEnable", "InterruptStatusEnable">>)

\* Variant: the masked flag is not consulted when the interrupts are disabled.
DisableInterrupts_IgnoresMask(d) ==
  Wrote([d EXCEPT
           !.InterruptSignalEnable = IF interrupt_cb_ THEN CardBit ELSE {},
           !.InterruptStatusEnable = IF interrupt_cb_ THEN CardBit ELSE {}],
        <<"InterruptSignalEnable", "InterruptStatusEnable">>)

DisableInterrupts(d) ==
  Wrote([d EXCEPT
           !.InterruptSignalEnable = IF interrupt_cb_ THEN CardBit ELSE {},
           !.InterruptStatusEnable =
              IF interrupt_cb_ /\ ~d.card_interrupt_masked_ THEN CardBit ELSE {}],
        <<"InterruptSignalEnable", "InterruptStatusEnable">>)

\* Variant: the completion is signalled but the status is not stored.
CompleteRequestLocked_NoStatus(d, req, status) ==
  LET d1 == DisableInterrupts(d)
  IN [d1 EXCEPT !.cmd_req_ = nullptr,
                !.data_req_ = nullptr,
                !.data_blockid_ = 0,
                !.data_done_ = FALSE,
                !.reqs[req].completions = @ + 1,
                !.req_completion_ = TRUE]

\* Variant: the data slot is not cleared.
CompleteRequestLocked_KeepsDataSlot(d, req, status) ==
  LET d1 == DisableInterrupts(d)
  IN [d1 EXCEPT !.cmd_req_ = nullptr,
                !.data_blockid_ = 0,
                !.data_done_ = FALSE,
                !.reqs[req].status = status,
                !.reqs[req].completions = @ + 1,
                !.req_completion_ = TRUE]

CompleteRequestLocked(d, req, status) ==
  LET d1 == DisableInterrupts(d)
  IN [d1 EXCEPT !.cmd_req_ = nullptr,
                !.data_req_ = nullptr,
                !.data_blockid_ = 0,
                !.data_done_ = FALSE,
                !.reqs[req].status = status,
                !.reqs[req].completions = @ + 1,
                !.req_completion_ = TRUE]

\* (hi << 8) | ((lo >> 24) & 0xFF) on 32-bit words: the top byte of hi is
\* shifted out, the top byte of lo comes in at the bottom.
ShiftIn(hi, lo) == <<hi[2], hi[3], hi[4], lo[1]>>
Shl8(x) == <<x[2], x[3], x[4], 0>>

\* Variant: the byte that crosses from one word into the next is dropped.
ReadResponse_NoCarry(cmd_flags, quirks, old, r) ==
  IF "SDMMC_RESP_LEN_136" \in cmd_flags THEN
    IF "SDHCI_QUIRK_STRIP_RESPONSE_CRC" \in quirks THEN
      <<Shl8(r[4]), Shl8(r[3]), Shl8(r[2]), Shl8(r[1])>>
    ELSE IF "SDHCI_QUIRK_STRIP_RESPONSE_CRC_PRESERVE_ORDER" \in quirks THEN
      <<Shl8(r[1]), Shl8(r[2]), Shl8(r[3]), Shl8(r[4])>>
    ELSE r
  ELSE IF cmd_flags \cap {"SDMMC_RESP_LEN_48", "SDMMC_RESP_LEN_48B"} # {} THEN
    <<r[1], old[2], old[3], old[4]>>
  ELSE old

ReadResponse(cmd_flags, quirks, old, r) ==
  IF "SDMMC_RESP_LEN_136" \in cmd_flags THEN
    IF "SDHCI_QUIRK_STRIP_RESPONSE_CRC" \in quirks THEN
      <<ShiftIn(r[4], r[3]), ShiftIn(r[3], r[2]), ShiftIn(r[2], r[1]), Shl8(r[1])>>
    ELSE IF "SDHCI_QUIRK_STRIP_RESPONSE_CRC_PRESERVE_ORDER" \in quirks THEN
      <<Shl8(r[1]), ShiftIn(r[2], r[1]), ShiftIn(r[3], r[2]), ShiftIn(r[4], r[3])>>
    ELSE r
  ELSE IF cmd_flags \cap {"SDMMC_RESP_LEN_48", "SDMMC_RESP_LEN_48B"} # {} THEN
    <<r[1], old[2], old[3], old[4]>>
  ELSE old

\* Variant: with no command pending, command-complete finishes the request in
\* the data slot.
CmdStageCompleteLocked_CompletesData(d) ==
  IF d.cmd_req_ = nullptr
  THEN IF d.data_req_ = nullptr THEN d ELSE CompleteRequestLocked(d, d.data_req_, "ZX_OK")
  ELSE
    LET req == d.cmd_req_
        d1 == [d EXCEPT !.reqs[req].response =
                 ReadResponse(d.reqs[req].cmd_flags, host.quirks, @, Response)]
    IN IF d1.data_req_ = nullptr \/ d1.data_done_
       THEN CompleteRequestLocked(d1, req, "ZX_OK")
       ELSE [d1 EXCEPT !.cmd_req_ = nullptr]

\* Variant: command-complete finishes the request whatever the data stage.
CmdStageCompleteLocked_AlwaysCompletes(d) ==
  IF d.cmd_req_ = nullptr THEN d
  ELSE
    LET req == d.cmd_req_
        d1 == [d EXCEPT !.reqs[req].response =
                 ReadResponse(d.reqs[req].cmd_flags, host.quirks, @, Response)]
    IN CompleteRequestLocked(d1, req, "ZX_OK")

CmdStageCompleteLocked(d) ==
  IF d.cmd_req_ = nullptr THEN d
  ELSE
    LET req == d.cmd_req_
        d1 == [d EXCEPT !.reqs[req].response =
                 ReadResponse(d.reqs[req].cmd_flags, host.quirks, @, Response)]
    IN IF d1.data_req_ = nullptr \/ d1.data_done_
       THEN CompleteRequestLocked(d1, req, "ZX_OK")
       ELSE [d1 EXCEPT !.cmd_req_ = nullptr]

\* Variant: a tuning command is treated like any other read.
DataStageReadReadyLocked_NoTuning(d) ==
  IF d.data_req_ = nullptr \/ ~SdmmcCmdHasData(d.reqs[d.data_req_].cmd_flags) THEN d
  ELSE Wrote([d EXCEPT !.data_blockid_ = (@ + 1) % Word16], <<"BufferData">>)

\* Variant: a data slot that holds a command without data is not checked for.
DataStageWriteReadyLocked_NoDataCheck(d) ==
  IF d.data_req_ = nullptr THEN d
  ELSE Wrote([d EXCEPT !.data_blockid_ = (@ + 1) % Word16], <<"BufferData">>)

\* The words moved through the data port are not part of the state: a
\* block transfer between the BufferData port and the request's buffer shows
\* as one BufferData access in wlog and the advance of the cursor.
DataStageReadReadyLocked(d) ==
  IF d.data_req_ = nullptr \/ ~SdmmcCmdHasData(d.reqs[d.data_req_].cmd_flags) THEN d
  ELSE IF IsTuningCmd(d.reqs[d.data_req_].cmd_idx)
       THEN CompleteRequestLocked(d, d.data_req_, "ZX_OK")
       ELSE Wrote([d EXCEPT !.data_blockid_ = (@ + 1) % Word16], <<"BufferData">>)

DataStageWriteReadyLocked(d) ==
  IF d.data_req_ = nullptr \/ ~SdmmcCmdHasData(d.reqs[d.data_req_].cmd_flags) THEN d
  ELSE Wrote([d EXCEPT !.data_blockid_ = (@ + 1) % Word16], <<"BufferData">>)

\* Variant: transfer-complete finishes the request whatever the command stage.
TransferCompleteLocked_AlwaysCompletes(d) ==
  IF d.data_req_ = nullptr THEN d
  ELSE CompleteRequestLocked(d, d.data_req_, "ZX_OK")

\* Variant: the flag is set whether or not the command is still pending.
TransferCompleteLocked_FlagOnly(d) ==
  IF d.data_req_ = nullptr THEN d
  ELSE [d EXCEPT !.data_done_ = TRUE]

TransferCompleteLocked(d) ==
  IF d.data_req_ = nullptr THEN d
  ELSE IF d.cmd_req_ # nullptr THEN [d EXCEPT !.data_done_ = TRUE]
  ELSE CompleteRequestLocked(d, d.data_req_, "ZX_OK")

\* Variant: only the command state machine is reset.
ErrorRecoveryLocked_NoDatReset(d, hw_cmd, hw_dat) ==
  LET w1 == WaitForReset(d.SoftwareReset \cup {"reset_cmd"}, {"reset_cmd"}, hw_cmd)
      d1 == Wrote([d EXCEPT !.SoftwareReset = w1.sw], <<"SoftwareReset">>)
  IN IF d1.cmd_req_ # nullptr THEN CompleteRequestLocked(d1, d1.cmd_req_, "ZX_ERR_IO")
     ELSE IF d1.data_req_ # nullptr THEN CompleteRequestLocked(d1, d1.data_req_, "ZX_ERR_IO")
     ELSE d1

\* hw_cmd and hw_dat: whether the hardware clears the reset bit just written
\* before WaitForReset's deadline.
ErrorRecoveryLocked(d, hw_cmd, hw_dat) ==
  LET w1 == WaitForReset(d.SoftwareReset \cup {"reset_cmd"}, {"reset_cmd"}, hw_cmd)
      w2 == WaitForReset(w1.sw \cup {"reset_dat"}, {"reset_dat"}, hw_dat)
      d1 == Wrote([d EXCEPT !.SoftwareReset = w2.sw], <<"SoftwareReset", "SoftwareReset">>)
  IN IF d1.cmd_req_ # nullptr THEN CompleteRequestLocked(d1, d1.cmd_req_, "ZX_ERR_IO")
     ELSE IF d1.data_req_ # nullptr THEN CompleteRequestLocked(d1, d1.data_req_, "ZX_ERR_IO")
     ELSE d1

\* The body of IrqThread's loop under the lock, for the interrupt word w.
\* No scatter-gather request exists in this model (pending_request_ is never
\* pending), so with both slots empty only the card interrupt is looked at.
IrqDispatch(d, w, hw_cmd, hw_dat) ==
  LET d1 == IF "command_complete" \in w THEN CmdStageCompleteLocked(d) ELSE d
      d2 == IF "buffer_read_ready" \in w THEN DataStageReadReadyLocked(d1) ELSE d1
      d3 == IF "buffer_write_ready" \in w THEN DataStageWriteReadyLocked(d2) ELSE d2
      d4 == IF "transfer_complete" \in w THEN TransferCompleteLocked(d3) ELSE d3
      d5 == IF w \cap ErrorBits # {} THEN ErrorRecoveryLocked(d4, hw_cmd, hw_dat) ELSE d4
      d6 == IF d.cmd_req_ # nullptr \/ d.data_req_ # nullptr THEN d5 ELSE d
  IN IF "card_interrupt" \in w
     THEN Wrote([d6 EXCEPT !.InterruptStatusEnable = @ \ CardBit,
                           !.card_interrupt_masked_ = TRUE],
                <<"InterruptStatusEnable">>)
     ELSE d6

\* ------------------------------------------------- DMA descriptor building
Min(a, b) == IF a < b THEN a ELSE b

RoundDown(x, align) == x - (x % align)

\* phys_iter_init / phys_iter_next: the transfer's bytes are walked in
\* order over the pinned pages; each call hands out the next physically
\* contiguous run, of at most max_length. it is the iterator's position:
\* page index i, offset skip into that page, bytes remaining.
PhysIterInit(vmo_offset, length) ==
  [i |-> 1, skip |-> vmo_offset % PageSize, remaining |-> length]

RECURSIVE PhysIterGrow(_, _, _, _, _)
PhysIterGrow(phys, it, max_length, paddr, length) ==
  IF \/ it.remaining = 0 \/ it.i > Len(phys) \/ length = max_length
     \/ (length > 0 /\ phys[it.i] + it.skip # paddr + length)
  THEN [length |-> length, paddr |-> paddr, it |-> it]
  ELSE
    LET take == Min(Min(it.remaining, PageSize - it.skip), max_length - length)
        full == it.skip + take = PageSize
        it1 == [i |-> IF full THEN it.i + 1 ELSE it.i,
                skip |-> IF full THEN 0 ELSE it.skip + take,
                remaining |-> it.remaining - take]
    IN PhysIterGrow(phys, it1, max_length, paddr, length + take)

PhysIterNext(phys, it, max_length) ==
  IF it.remaining = 0 \/ it.i > Len(phys)
  THEN [length |-> 0, paddr |-> 0, it |-> it]
  ELSE PhysIterGrow(phys, it, max_length, phys[it.i] + it.skip, 0)

ReqLen(req) == req.blockcount * Units(req.blocksize)

PageCount(req) ==
  ((Units(req.buf_offset) % PageSize) + ReqLen(req) + (PageSize - 1)) \div PageSize

\* The descriptor loop of BuildDmaDescriptor. ls is the loop's state: the
\* page list and the iterator, the run in hand (paddr, length), the
\* descriptors written so far, and st, "RUN" until the loop is left.
\* addr64 selects AdmaDescriptor96 (64-bit address field) over
\* AdmaDescriptor64 (32-bit address field).
LoopStart(phys, req) ==
  [phys |-> phys, it |-> PhysIterInit(Units(req.buf_offset), ReqLen(req)),
   length |-> 0, paddr |-> 0, descs |-> <<>>, st |-> "RUN"]

\* length == 0 after phys_iter_next: the end attribute goes on the last
\* descriptor written, or the list is empty.
\* Variant: the end attribute is not set.
LoopEnd_NoEndBit(ls) ==
  IF ls.descs # <<>>
  THEN [ls EXCEPT !.st = "ZX_OK"]
  ELSE [ls EXCEPT !.st = "ZX_ERR_NOT_SUPPORTED"]

LoopEnd(ls) ==
  IF ls.descs # <<>>
  THEN [ls EXCEPT !.st = "ZX_OK",
                  !.descs = [ls.descs EXCEPT ![Len(ls.descs)].attr = @ \cup {"end"}]]
  ELSE [ls EXCEPT !.st = "ZX_ERR_NOT_SUPPORTED"]

\* The boundary-alignment quirk: a run that crosses a boundary is cut at the
\* first boundary after its start; the rest stays in hand for the next pass.
\* Variant: the rest is taken to start one page after the boundary.
SplitAtBoundary_SkipsPage(paddr, length, quirks, alignment) ==
  LET aligned_start == RoundDown(paddr, alignment)
      aligned_end == RoundDown(paddr + length - 1, alignment)
      first_length == aligned_start + alignment - paddr
  IN IF "SDHCI_QUIRK_USE_DMA_BOUNDARY_ALIGNMENT" \in quirks /\ aligned_start # aligned_end
     THEN [length |-> first_length, next_length |-> length - first_length,
           next_paddr |-> paddr + first_length + PageSize]
     ELSE [length |-> length, next_length |-> 0, next_paddr |-> 0]

\* Variant: the cut is made at the last boundary the run crosses.
SplitAtBoundary_LastBoundary(paddr, length, quirks, alignment) ==
  LET aligned_start == RoundDown(paddr, alignment)
      aligned_end == RoundDown(paddr + length - 1, alignment)
      first_length == aligned_end - paddr
  IN IF "SDHCI_QUIRK_USE_DMA_BOUNDARY_ALIGNMENT" \in quirks /\ aligned_start # aligned_end
     THEN [length |-> first_length, next_length |-> length - first_length,
           next_paddr |-> paddr + first_length]
     ELSE [length |-> length, next_length |-> 0, next_paddr |-> 0]

SplitAtBoundary(paddr, length, quirks, alignment) ==
  LET aligned_start == RoundDown(paddr, alignment)
      aligned_end == RoundDown(paddr + length - 1, alignment)
      first_length == aligned_start + alignment - paddr
  IN IF "SDHCI_QUIRK_USE_DMA_BOUNDARY_ALIGNMENT" \in quirks /\ aligned_start # aligned_end
     THEN [length |-> first_length, next_length |-> length - first_length,
           next_paddr |-> paddr + first_length]
     ELSE [length |-> length, next_length |-> 0, next_paddr |-> 0]

\* The descriptor written: the address cast to the field's width, the length
\* cast to uint16_t.
MakeDescriptor(paddr, length, addr64) ==
  [address |-> IF addr64 THEN paddr ELSE paddr % Limit32,
   length |-> length % Units(Word16),
   attr |-> {"valid", "type_data"}]

\* Variant: a run's address is not compared with the descriptor's width.
DescriptorStep_NoWidthCheck(ls, addr64, quirks, alignment) ==
  LET fetch == ls.length = 0
      nx == PhysIterNext(ls.phys, ls.it, kMaxDescriptorLength)
      len1 == IF fetch THEN nx.length ELSE ls.length
      pa1 == IF fetch THEN nx.paddr ELSE ls.paddr
      ls1 == IF fetch THEN [ls EXCEPT !.it = nx.it] ELSE ls
      cut == SplitAtBoundary(pa1, len1, quirks, alignment)
  IN
  IF len1 = 0 THEN LoopEnd(ls1)
  ELSE IF len1 > kMaxDescriptorLength THEN [ls1 EXCEPT !.st = "ZX_ERR_NOT_SUPPORTED"]
  ELSE IF Len(ls.descs) + 1 > kDmaDescCount THEN [ls1 EXCEPT !.st = "ZX_ERR_NOT_SUPPORTED"]
  ELSE [ls1 EXCEPT !.length = cut.next_length, !.paddr = cut.next_paddr,
                   !.descs = Append(ls.descs, MakeDescriptor(pa1, cut.length, addr64))]

\* One pass through the body of the for loop.
DescriptorStep(ls, addr64, quirks, alignment) ==
  LET fetch == ls.length = 0
      nx == PhysIterNext(ls.phys, ls.it, kMaxDescriptorLength)
      len1 == IF fetch THEN nx.length ELSE ls.length
      pa1 == IF fetch THEN nx.paddr ELSE ls.paddr
      ls1 == IF fetch THEN [ls EXCEPT !.it = nx.it] ELSE ls
      cut == SplitAtBoundary(pa1, len1, quirks, alignment)
  IN
  IF len1 = 0 THEN LoopEnd(ls1)
  ELSE IF len1 > kMaxDescriptorLength THEN [ls1 EXCEPT !.st = "ZX_ERR_NOT_SUPPORTED"]
  ELSE IF Len(ls.descs) + 1 > kDmaDescCount THEN [ls1 EXCEPT !.st = "ZX_ERR_NOT_SUPPORTED"]
  ELSE IF ~addr64 /\ pa1 >= Limit32 THEN [ls1 EXCEPT !.st = "ZX_ERR_NOT_SUPPORTED"]
  ELSE [ls1 EXCEPT !.length = cut.next_length, !.paddr = cut.next_paddr,
                   !.descs = Append(ls.descs, MakeDescriptor(pa1, cut.length, addr64))]

RECURSIVE DescriptorLoop(_, _, _, _)
DescriptorLoop(ls, addr64, quirks, alignment) ==
  IF ls.st # "RUN" THEN ls
  ELSE DescriptorLoop(DescriptorStep(ls, addr64, quirks, alignment), addr64, quirks, alignment)

\* PinRequestPages, given what bti_.pin and the cache operation return: the
\* pin handle reaches req->pmt only when both succeed; a pin followed by a
\* failed cache operation leaves the pages pinned with no handle kept.
PinRequestPages(req, pin_st, cache_st) ==
  IF pin_st # "ZX_OK" THEN [st |-> pin_st, req |-> req]
  ELSE IF cache_st # "ZX_OK" THEN [st |-> cache_st, req |-> [req EXCEPT !.pinned = @ + 1]]
  ELSE [st |-> "ZX_OK", req |-> [req EXCEPT !.pinned = @ + 1, !.pmt = 1]]

\* Variant: the pages are pinned before the page count is checked.
BuildDmaDescriptor_PinsFirst(d, r, e) ==
  LET req == d.reqs[r]
      pin == PinRequestPages(req, e.pin_st, e.cache_st)
      d1 == [d EXCEPT !.reqs[r] = pin.req]
  IN
  IF pin.st # "ZX_OK" THEN [st |-> pin.st, d |-> d1, descs |-> <<>>]
  ELSE [st |-> "ZX_ERR_INVALID_ARGS", d |-> d1, descs |-> <<>>]

\* BuildDmaDescriptor for request r. e gives what the environment returns:
\* e.pin_st, e.cache_st (PinRequestPages), e.phys (the pinned page list) and
\* e.desc_cache_st (iobuf_.CacheOp).
BuildDmaDescriptor(d, r, e) ==
  LET req == d.reqs[r]
      pin == PinRequestPages(req, e.pin_st, e.cache_st)
      d1 == [d EXCEPT !.reqs[r] = pin.req]
      loop == DescriptorLoop(LoopStart(e.phys, req), host.addr64, host.quirks,
                             host.dma_boundary_alignment)
  IN
  IF PageCount(req) > SDMMC_PAGES_COUNT THEN [st |-> "ZX_ERR_INVALID_ARGS", d |-> d, descs |-> <<>>]
  ELSE IF pin.st # "ZX_OK" THEN [st |-> pin.st, d |-> d1, descs |-> <<>>]
  ELSE IF loop.st # "ZX_OK" THEN [st |-> loop.st, d |-> d1, descs |-> loop.descs]
  ELSE IF ~host.addr64 /\ host.iobuf_phys >= Limit32
       THEN [st |-> "ZX_ERR_NOT_SUPPORTED", d |-> d1, descs |-> loop.descs]
  ELSE IF e.desc_cache_st # "ZX_OK" THEN [st |-> e.desc_cache_st, d |-> d1, descs |-> loop.descs]
  ELSE [st |-> "ZX_OK",
        d |-> Wrote(d1, <<"AdmaSystemAddress0", "AdmaSystemAddress1">>),
        descs |-> loop.descs]

\* ------------------------------------------------------------ request issue
\* The inhibit bits StartRequestLocked waits for.
InhibitMask(cmd_flags) ==
  {"command_inhibit_cmd"}
    \cup (IF "SDMMC_RESP_LEN_48B" \in cmd_flags /\ "SDMMC_CMD_TYPE_ABORT" \in cmd_flags
          THEN {"command_inhibit_dat"} ELSE {})

\* Variant: a busy-response command without data leaves the data slot empty.
StartRequestLocked_DataOnly(d, r, ps, e) ==
  LET req == d.reqs[r]
      has_data == SdmmcCmdHasData(req.cmd_flags)
      inhibit == WaitForInhibit(ps, InhibitMask(req.cmd_flags))
      d0 == Polled(d, ps)
      dma == IF has_data /\ req.use_dma
             THEN BuildDmaDescriptor(d0, r, e)
             ELSE [st |-> "ZX_OK", d |-> d0, descs |-> <<>>]
      d1 == Wrote(dma.d, <<"BlockSize", "BlockCount", "Argument", "InterruptStatus">>)
      d2 == [d1 EXCEPT !.InterruptStatus = @ \ d1.InterruptSignalEnable]
      d3 == Wrote(EnableInterrupts(d2), <<"TransferMode", "Command">>)
  IN
  IF req.use_dma /\ ~SupportsAdma2 THEN [st |-> "ZX_ERR_NOT_SUPPORTED", d |-> d]
  ELSE IF inhibit # "ZX_OK" THEN [st |-> inhibit, d |-> d0]
  ELSE IF dma.st # "ZX_OK" THEN [st |-> dma.st, d |-> dma.d]
  ELSE [st |-> "ZX_OK",
        d |-> [d3 EXCEPT !.cmd_req_ = r,
                         !.data_req_ = IF has_data THEN r ELSE nullptr,
                         !.data_blockid_ = 0,
                         !.data_done_ = FALSE]]

\* Variant: the interrupts are enabled only after the command was started.
StartRequestLocked_EnablesLate(d, r, ps, e) ==
  LET req == d.reqs[r]
      has_data == SdmmcCmdHasData(req.cmd_flags)
      inhibit == WaitForInhibit(ps, InhibitMask(req.cmd_flags))
      d0 == Polled(d, ps)
      dma == IF has_data /\ req.use_dma
             THEN BuildDmaDescriptor(d0, r, e)
             ELSE [st |-> "ZX_OK", d |-> d0, descs |-> <<>>]
      d1 == Wrote(dma.d, <<"BlockSize", "BlockCount", "Argument", "InterruptStatus">>)
      d2 == [d1 EXCEPT !.InterruptStatus = @ \ d1.InterruptSignalEnable]
      d3 == EnableInterrupts(Wrote(d2, <<"TransferMode", "Command">>))
  IN
  IF req.use_dma /\ ~SupportsAdma2 THEN [st |-> "ZX_ERR_NOT_SUPPORTED", d |-> d]
  ELSE IF inhibit # "ZX_OK" THEN [st |-> inhibit, d |-> d0]
  ELSE IF dma.st # "ZX_OK" THEN [st |-> dma.st, d |-> dma.d]
  ELSE [st |-> "ZX_OK",
        d |-> [d3 EXCEPT !.cmd_req_ = r,
                         !.data_req_ = IF has_data \/ SdmmcCmdRspBusy(req.cmd_flags)
                                       THEN r ELSE nullptr,
                         !.data_blockid_ = 0,
                         !.data_done_ = FALSE]]

\* StartRequestLocked for request r: ps is the PresentState value the last
\* poll of WaitForInhibit reads, e the environment of BuildDmaDescriptor.
StartRequestLocked(d, r, ps, e) ==
  LET req == d.reqs[r]
      has_data == SdmmcCmdHasData(req.cmd_flags)
      inhibit == WaitForInhibit(ps, InhibitMask(req.cmd_flags))
      d0 == Polled(d, ps)
      dma == IF has_data /\ req.use_dma
             THEN BuildDmaDescriptor(d0, r, e)
             ELSE [st |-> "ZX_OK", d |-> d0, descs |-> <<>>]
      d1 == Wrote(dma.d, <<"BlockSize", "BlockCount", "Argument", "InterruptStatus">>)
      d2 == [d1 EXCEPT !.InterruptStatus = @ \ d1.InterruptSignalEnable]
      d3 == Wrote(EnableInterrupts(d2), <<"TransferMode", "Command">>)
  IN
  IF req.use_dma /\ ~SupportsAdma2 THEN [st |-> "ZX_ERR_NOT_SUPPORTED", d |-> d]
  ELSE IF inhibit # "ZX_OK" THEN [st |-> inhibit, d |-> d0]
  ELSE IF dma.st # "ZX_OK" THEN [st |-> dma.st, d |-> dma.d]
  ELSE [st |-> "ZX_OK",
        d |-> [d3 EXCEPT !.cmd_req_ = r,
                         !.data_req_ = IF has_data \/ SdmmcCmdRspBusy(req.cmd_flags)
                                       THEN r ELSE nullptr,
                         !.data_blockid_ = 0,
                         !.data_done_ = FALSE]]

\* Variant: no check of the slots before the issue.
IssueLocked_NoBusyCheck(d, r, ps, e) ==
  StartRequestLocked(d, r, ps, e)

\* The locked section of SdmmcRequest: one command at a time.
IssueLocked(d, r, ps, e) ==
  IF d.cmd_req_ # nullptr \/ d.data_req_ # nullptr
  THEN [st |-> "ZX_ERR_SHOULD_WAIT", d |-> d]
  ELSE StartRequestLocked(d, r, ps, e)

\* FinishRequest on the request object req: cache_st and unpin_st are what
\* zx_vmo_op_range and zx_pmt_unpin return, sw the SoftwareReset register and
\* hw_clears whether the hardware clears its reset bits before the deadline.
FinishRequest(req, sw, cache_st, unpin_st, hw_clears) ==
  LET dma == req.use_dma /\ req.pmt # ZX_HANDLE_INVALID
      cache_fails == dma /\ "SDMMC_CMD_READ" \in req.cmd_flags /\ cache_st # "ZX_OK"
      unpinned == [req EXCEPT !.pmt = ZX_HANDLE_INVALID,
                              !.pinned = IF unpin_st = "ZX_OK" THEN @ - 1 ELSE @]
      wait == WaitForReset(sw, {"reset_cmd", "reset_dat"}, hw_clears)
  IN
  IF cache_fails THEN [st |-> cache_st, req |-> req, sw |-> sw]
  ELSE IF dma /\ unpin_st # "ZX_OK" THEN [st |-> unpin_st, req |-> unpinned, sw |-> sw]
  ELSE IF "SDMMC_CMD_TYPE_ABORT" \in req.cmd_flags
       THEN [st |-> wait.st, req |-> IF dma THEN unpinned ELSE req, sw |-> wait.sw]
  ELSE [st |-> "ZX_OK", req |-> IF dma THEN unpinned ELSE req, sw |-> sw]

\* ---------------------------------------------------------- the environment
\* What the kernel calls may return.
PinResults == {"ZX_OK", "ZX_ERR_NO_MEMORY"}
CacheResults == {"ZX_OK", "ZX_ERR_OUT_OF_RANGE"}
UnpinResults == {"ZX_OK", "ZX_ERR_BAD_HANDLE"}

\* Page lists bti_.pin may hand out: physically contiguous pages below or
\* above the 32-bit limit.
PhysChoices(n) ==
  IF n > SDMMC_PAGES_COUNT THEN { <<>> }
  ELSE { [i \in 1..n |-> base + (i - 1) * PageSize] : base \in {256 * PageSize, Limit32 + 256 * PageSize} }

NoDmaEnv == [pin_st |-> "ZX_OK", cache_st |-> "ZX_OK", phys |-> <<>>, desc_cache_st |-> "ZX_OK"]

DmaEnvs(req) ==
  IF SdmmcCmdHasData(req.cmd_flags) /\ req.use_dma /\ SupportsAdma2
  THEN [pin_st : PinResults, cache_st : CacheResults, phys : PhysChoices(PageCount(req)),
        desc_cache_st : CacheResults]
  ELSE { NoDmaEnv }

InhibitBits == {"command_inhibit_cmd", "command_inhibit_dat"}

\* The PresentState values a poll of WaitForInhibit may end on.
InhibitReads == SUBSET InhibitBits

\* The controller instances: quirks_, dma_boundary_alignment_ and the
\* capability bits Init reads.
Hosts ==
  { [quirks |-> {"SDHCI_QUIRK_STRIP_RESPONSE_CRC"}, dma_boundary_alignment |-> 0,
     adma2 |-> TRUE, addr64 |-> FALSE, iobuf_phys |-> 16 * PageSize] }

\* The configuration registers after the controller reset of Init.
ResetRegs ==
  [HostControl1 |-> [high_speed_enable |-> 0, data_transfer_width_4bit |-> 0,
                     extended_data_transfer_width |-> 0],
   HostControl2 |-> [uhs_mode_select |-> "kUhsModeSdr12", voltage_1v8_signalling_enable |-> 0,
                     execute_tuning |-> 0, use_tuned_clock |-> 0],
   PowerControl |-> [sd_bus_power_vdd1 |-> 1]]

\* SdmmcPerformTuning not called: pc is the thread's position, count the loop
\* variable, execute_tuning and use_tuned_clock the fields of the local ctrl2,
\* st the return value; issued counts the calls of SdmmcRequestNew, req_st is
\* the status of the latest one, and all_set records that every read of
\* HostControl2 after the initial write showed execute_tuning set.
NoTuning == [pc |-> "idle", cmd_idx |-> 0, blocksize |-> 0, count |-> 0, issued |-> 0,
             execute_tuning |-> 0, use_tuned_clock |-> 0, req_st |-> "NONE",
             all_set |-> TRUE, st |-> "NONE"]

NoCall == [op |-> "none", arg |-> "none", st |-> "NONE"]

\* The workloads explored: one caller thread submitting every shape of
\* request to hardware that raises any interrupt bit, or all caller threads
\* submitting commands without a data phase concurrently to hardware that
\* raises command-complete and either transfer-complete or the error bit.
DuoShapes == { s \in ReqShapes : ~SdmmcCmdHasData(s.cmd_flags) /\ s.cmd_idx \in {13, 12} }

Workloads ==
  { [callers |-> {1}, shapes |-> ReqShapes, bits |-> IrqBits],
    [callers |-> Callers, shapes |-> DuoShapes,
     bits |-> {"command_complete", "transfer_complete"}],
    [callers |-> Callers, shapes |-> DuoShapes,
     bits |-> {"command_complete", "error"}] }

\* ------------------------------------------------------------------- Init
\* The state Sdhci::Init leaves: both slots empty, interrupts disabled, no
\* callback registered, the interrupt thread waiting.
Init ==
  /\ mtx_ = NoOwner
  /\ cmd_req_ = nullptr
  /\ data_req_ = nullptr
  /\ data_blockid_ = 0
  /\ data_done_ = FALSE
  /\ req_completion_ = FALSE
  /\ interrupt_cb_ = FALSE
  /\ card_interrupt_masked_ = FALSE
  /\ InterruptStatus = {}
  /\ InterruptSignalEnable = {}
  /\ InterruptStatusEnable = {}
  /\ SoftwareReset = {}
  /\ Response = NoResponse
  /\ reqs = [c \in Callers |-> NoRequest]
  /\ ret = [c \in Callers |-> "NONE"]
  /\ pc = [c \in Callers |-> "idle"]
  /\ irq_pc = "wait"
  /\ irq = {}
  /\ wlog = <<>>
  /\ host \in Hosts
  /\ workload \in Workloads
  /\ regs = ResetRegs
  /\ tune = NoTuning
  /\ call = NoCall

\* ------------------------------------------------------- SdmmcRequest steps
\* Caller c enters SdmmcRequest with a fresh request in its sdmmc_req_t and
\* takes mtx_. A caller does not reuse a request object that a slot still
\* points to.
SdmmcRequestEnter(c) ==
  /\ c \in workload.callers
  /\ pc[c] = "idle"
  /\ cmd_req_ # c /\ data_req_ # c
  /\ mtx_ = NoOwner
  /\ \E shape \in workload.shapes :
       reqs' = [reqs EXCEPT ![c] = NewRequest(shape)]
  /\ ret' = [ret EXCEPT ![c] = "NONE"]
  /\ mtx_' = CallerId(c)
  /\ pc' = [pc EXCEPT ![c] = "locked"]
  /\ wlog' = <<>>
  /\ UNCHANGED <<cmd_req_, data_req_, data_blockid_, data_done_, req_completion_,
                 interrupt_cb_, card_interrupt_masked_, InterruptStatus,
                 InterruptSignalEnable, InterruptStatusEnable, SoftwareReset,
                 Response, irq_pc, irq, host, workload, regs, tune, call>>

\* The locked section: the busy check or StartRequestLocked, then the unlock.
SdmmcRequestIssue(c) ==
  /\ pc[c] = "locked"
  /\ mtx_ = CallerId(c)
  /\ \E ps \in InhibitReads, e \in DmaEnvs(reqs[c]) :
       LET res == IssueLocked(Drv, c, ps, e)
       IN /\ SetDrv([res.d EXCEPT !.reqs[c].issue = res.st])
          /\ pc' = [pc EXCEPT ![c] = IF res.st = "ZX_OK" THEN "wait" ELSE "failed"]
  /\ mtx_' = NoOwner
  /\ UNCHANGED <<interrupt_cb_, Response, ret, irq_pc, irq, host, workload, regs, tune, call>>

\* FinishRequest(req) as SdmmcRequest calls it: its return value is dropped.
CallFinishRequest(c) ==
  \E cache_st \in CacheResults, unpin_st \in UnpinResults, hw_clears \in BOOLEAN :
    LET fin == FinishRequest(reqs[c], SoftwareReset, cache_st, unpin_st, hw_clears)
    IN /\ reqs' = [reqs EXCEPT ![c] = [fin.req EXCEPT !.fin = fin.st]]
       /\ SoftwareReset' = fin.sw

\* The request object goes back to the caller when SdmmcRequest returns:
\* the model forgets it, unless a slot still points to it.
Returned(c) ==
  IF cmd_req_ = c \/ data_req_ = c THEN reqs ELSE [reqs EXCEPT ![c] = NoRequest]

\* st != ZX_OK: FinishRequest(req) ...
SdmmcRequestFail(c) ==
  /\ pc[c] = "failed"
  /\ CallFinishRequest(c)
  /\ pc' = [pc EXCEPT ![c] = "failed_return"]
  /\ wlog' = <<>>
  /\ UNCHANGED <<mtx_, cmd_req_, data_req_, data_blockid_, data_done_, req_completion_,
                 interrupt_cb_, card_interrupt_masked_, InterruptStatus,
                 InterruptSignalEnable, InterruptStatusEnable, Response, ret,
                 irq_pc, irq, host, workload, regs, tune, call>>

\* ... return st.
SdmmcRequestFailReturn(c) ==
  /\ pc[c] = "failed_return"
  /\ ret' = [ret EXCEPT ![c] = reqs[c].issue]
  /\ reqs' = Returned(c)
  /\ pc' = [pc EXCEPT ![c] = "idle"]
  /\ UNCHANGED <<mtx_, cmd_req_, data_req_, data_blockid_, data_done_, req_completion_,
                 interrupt_cb_, card_interrupt_masked_, InterruptStatus,
                 InterruptSignalEnable, InterruptStatusEnable, SoftwareReset, Response,
                 irq_pc, irq, wlog, host, workload, regs, tune, call>>

\* sync_completion_wait returns once req_completion_ is signalled.
SdmmcRequestWake(c) ==
  /\ pc[c] = "wait"
  /\ req_completion_
  /\ pc' = [pc EXCEPT ![c] = "finish"]
  /\ UNCHANGED <<mtx_, cmd_req_, data_req_, data_blockid_, data_done_, req_completion_,
                 interrupt_cb_, card_interrupt_masked_, InterruptStatus,
                 InterruptSignalEnable, InterruptStatusEnable, SoftwareReset,
                 Response, reqs, ret, irq_pc, irq, wlog, host, workload, regs, tune, call>>

\* FinishRequest(req) after the wait.
SdmmcRequestFinish(c) ==
  /\ pc[c] = "finish"
  /\ CallFinishRequest(c)
  /\ pc' = [pc EXCEPT ![c] = "reset"]
  /\ wlog' = <<>>
  /\ UNCHANGED <<mtx_, cmd_req_, data_req_, data_blockid_, data_done_, req_completion_,
                 interrupt_cb_, card_interrupt_masked_, InterruptStatus,
                 InterruptSignalEnable, InterruptStatusEnable, Response, ret,
                 irq_pc, irq, host, workload, regs, tune, call>>

\* sync_completion_reset(&req_completion_); return req->status.
SdmmcRequestReturn(c) ==
  /\ pc[c] = "reset"
  /\ req_completion_' = FALSE
  /\ ret' = [ret EXCEPT ![c] = reqs[c].status]
  /\ reqs' = Returned(c)
  /\ pc' = [pc EXCEPT ![c] = "idle"]
  /\ UNCHANGED <<mtx_, cmd_req_, data_req_, data_blockid_, data_done_,
                 interrupt_cb_, card_interrupt_masked_, InterruptStatus,
                 InterruptSignalEnable, InterruptStatusEnable, SoftwareReset,
                 Response, irq_pc, irq, wlog, host, workload, regs, tune, call>>

\* ------------------------------------------------------ the interrupt thread
\* WaitForInterrupt returns, then the read-and-acknowledge of InterruptStatus.
IrqWake ==
  /\ irq_pc = "wait"
  /\ InterruptStatus \cap InterruptSignalEnable # {}
  /\ irq' = InterruptStatus
  /\ InterruptStatus' = {}
  /\ irq_pc' = "lock"
  /\ wlog' = <<<<"InterruptStatus", {}>>>>
  /\ UNCHANGED <<mtx_, cmd_req_, data_req_, data_blockid_, data_done_, req_completion_,
                 interrupt_cb_, card_interrupt_masked_, InterruptSignalEnable,
                 InterruptStatusEnable, SoftwareReset, Response, reqs, ret,
                 pc, host, workload, regs, tune, call>>

IrqLock ==
  /\ irq_pc = "lock"
  /\ mtx_ = NoOwner
  /\ mtx_' = IrqThreadId
  /\ irq_pc' = "dispatch"
  /\ UNCHANGED <<cmd_req_, data_req_, data_blockid_, data_done_, req_completion_,
                 interrupt_cb_, card_interrupt_masked_, InterruptStatus,
                 InterruptSignalEnable, InterruptStatusEnable, SoftwareReset,
                 Response, reqs, ret, pc, irq, wlog, host, workload, regs, tune, call>>

\* interrupt_cb_.Callback(): the client of the in-band interrupt is notified.
\* Only the in-band interrupt development keeps a record of the client.
Callback(c) == IF c.op = "InBandInterrupt" THEN [c EXCEPT !.st = "called"] ELSE c

\* Variant: the thread goes back to WaitForInterrupt with the lock held.
IrqHandle_KeepsLock ==
  /\ irq_pc = "dispatch"
  /\ mtx_ = IrqThreadId
  /\ \E hw_cmd \in BOOLEAN, hw_dat \in BOOLEAN :
       SetDrv(IrqDispatch(Drv, irq, hw_cmd, hw_dat))
  /\ call' = IF "card_interrupt" \in irq /\ interrupt_cb_ THEN Callback(call) ELSE call
  /\ mtx_' = mtx_
  /\ irq_pc' = "wait"
  /\ irq' = {}
  /\ UNCHANGED <<interrupt_cb_, Response, ret, pc, host, workload, regs, tune>>

\* The dispatch under the lock, then the unlock at the end of the loop body.
IrqHandle ==
  /\ irq_pc = "dispatch"
  /\ mtx_ = IrqThreadId
  /\ \E hw_cmd \in BOOLEAN, hw_dat \in BOOLEAN :
       SetDrv(IrqDispatch(Drv, irq, hw_cmd, hw_dat))
  /\ call' = IF "card_interrupt" \in irq /\ interrupt_cb_ THEN Callback(call) ELSE call
  /\ mtx_' = NoOwner
  /\ irq_pc' = "wait"
  /\ irq' = {}
  /\ UNCHANGED <<interrupt_cb_, Response, ret, pc, host, workload, regs, tune>>

\* ------------------------------------------------------------ the hardware
\* The controller latches an interrupt status bit that is status-enabled; a
\* command-complete comes with the response registers loaded. The buffer
\* ready bits stop once the cursor is past MaxBlocks.
HwRaise(b) ==
  /\ b \in workload.bits
  /\ b \in InterruptStatusEnable
  /\ b \notin InterruptStatus
  /\ b \in {"buffer_read_ready", "buffer_write_ready"} => data_blockid_ <= MaxBlocks
  /\ InterruptStatus' = InterruptStatus \cup {b}
  /\ Response' \in IF b = "command_complete" THEN RespVals ELSE {Response}
  /\ UNCHANGED <<mtx_, cmd_req_, data_req_, data_blockid_, data_done_, req_completion_,
                 interrupt_cb_, card_interrupt_masked_, InterruptSignalEnable,
                 InterruptStatusEnable, SoftwareReset, reqs, ret,
                 pc, irq_pc, irq, wlog, host, workload, regs, tune, call>>

\* The self-clearing software reset bits.
HwResetDone ==
  /\ SoftwareReset # {}
  /\ SoftwareReset' = {}
  /\ UNCHANGED <<mtx_, cmd_req_, data_req_, data_blockid_, data_done_, req_completion_,
                 interrupt_cb_, card_interrupt_masked_, InterruptStatus,
                 InterruptSignalEnable, InterruptStatusEnable, Response,
                 reqs, ret, pc, irq_pc, irq, wlog, host, workload, regs, tune, call>>

Next ==
  \/ \E c \in Callers : SdmmcRequestEnter(c)
  \/ \E c \in Callers : SdmmcRequestIssue(c)
  \/ \E c \in Callers : SdmmcRequestFail(c)
  \/ \E c \in Callers : SdmmcRequestFailReturn(c)
  \/ \E c \in Callers : SdmmcRequestWake(c)
  \/ \E c \in Callers : SdmmcRequestFinish(c)
  \/ \E c \in Callers : SdmmcRequestReturn(c)
  \/ IrqWake
  \/ IrqLock
  \/ IrqHandle
  \/ \E b \in IrqBits : HwRaise(b)
  \/ HwResetDone

Spec == Init /\ [][Next]_vars

\* Two callers and the interrupt thread contending for mtx_, with the
\* scheduling the code relies on: a thread that holds mtx_ keeps running (the
\* waits under the lock are polls with a fixed deadline), and the mutex is
\* handed to a thread that keeps waiting for it.
LockWorkload ==
  [callers |-> Callers,
   shapes |-> { Shape(13, {"SDMMC_RESP_LEN_48", "SDMMC_CMD_TYPE_NORMAL"}, 0, FALSE) },
   bits |-> {"error"}]

InitLock ==
  /\ mtx_ = NoOwner
  /\ cmd_req_ = nullptr
  /\ data_req_ = nullptr
  /\ data_blockid_ = 0
  /\ data_done_ = FALSE
  /\ req_completion_ = FALSE
  /\ interrupt_cb_ = FALSE
  /\ card_interrupt_masked_ = FALSE
  /\ InterruptStatus = {}
  /\ InterruptSignalEnable = {}
  /\ InterruptStatusEnable = {}
  /\ SoftwareReset = {}
  /\ Response = NoResponse
  /\ reqs = [c \in Callers |-> NoRequest]
  /\ ret = [c \in Callers |-> "NONE"]
  /\ pc = [c \in Callers |-> "idle"]
  /\ irq_pc = "wait"
  /\ irq = {}
  /\ wlog = <<>>
  /\ host \in Hosts
  /\ workload = LockWorkload
  /\ regs = ResetRegs
  /\ tune = NoTuning
  /\ call = NoCall

SpecLock ==
  /\ InitLock
  /\ [][Next]_vars
  /\ \A c \in Callers : WF_vars(SdmmcRequestIssue(c))
  /\ WF_vars(IrqHandle)
  /\ SF_vars(IrqLock)

\* ------------------------------------------------- configuration setters
\* The enum values a caller may pass; the *_MAX values stand for every value
\* that is not an enumerator the switch statements name.
Voltages == {"SDMMC_VOLTAGE_V330", "SDMMC_VOLTAGE_V180", "SDMMC_VOLTAGE_MAX"}

BusWidths == {"SDMMC_BUS_WIDTH_ONE", "SDMMC_BUS_WIDTH_FOUR", "SDMMC_BUS_WIDTH_EIGHT",
              "SDMMC_BUS_WIDTH_MAX"}

Timings == {"SDMMC_TIMING_LEGACY", "SDMMC_TIMING_HS", "SDMMC_TIMING_HSDDR",
            "SDMMC_TIMING_HS200", "SDMMC_TIMING_HS400", "SDMMC_TIMING_SDR12",
            "SDMMC_TIMING_SDR25", "SDMMC_TIMING_SDR50", "SDMMC_TIMING_SDR104",
            "SDMMC_TIMING_DDR50", "SDMMC_TIMING_MAX"}

\* Variant: a failed voltage switch leaves the bus powered.
SetSignalVoltage_KeepsPower(r, caps, voltage, latched) ==
  LET v == IF voltage = "SDMMC_VOLTAGE_V180" THEN 1 ELSE 0
      seen == IF latched THEN v ELSE 1 - v
      r1 == [r EXCEPT !.HostControl2.voltage_1v8_signalling_enable = seen]
  IN
  IF voltage = "SDMMC_VOLTAGE_V330" /\ "SDMMC_HOST_CAP_VOLTAGE_330" \notin caps
  THEN [st |-> "ZX_ERR_NOT_SUPPORTED", regs |-> r, log |-> <<>>]
  ELSE IF voltage \notin {"SDMMC_VOLTAGE_V180", "SDMMC_VOLTAGE_V330"}
  THEN [st |-> "ZX_ERR_INVALID_ARGS", regs |-> r, log |-> <<>>]
  ELSE IF seen # v
  THEN [st |-> "ZX_ERR_INTERNAL", regs |-> r1, log |-> <<"HostControl2">>]
  ELSE [st |-> "ZX_OK", regs |-> r1, log |-> <<"HostControl2">>]

\* A setter's outcome: status, registers afterwards, registers written in order.
\* SdmmcSetSignalVoltage; latched says whether the re-read after the
\* stabilization sleep shows the voltage bit as written.
SetSignalVoltage(r, caps, voltage, latched) ==
  LET v == IF voltage = "SDMMC_VOLTAGE_V180" THEN 1 ELSE 0
      seen == IF latched THEN v ELSE 1 - v
      r1 == [r EXCEPT !.HostControl2.voltage_1v8_signalling_enable = seen]
  IN
  IF voltage = "SDMMC_VOLTAGE_V330" /\ "SDMMC_HOST_CAP_VOLTAGE_330" \notin caps
  THEN [st |-> "ZX_ERR_NOT_SUPPORTED", regs |-> r, log |-> <<>>]
  ELSE IF voltage \notin {"SDMMC_VOLTAGE_V180", "SDMMC_VOLTAGE_V330"}
  THEN [st |-> "ZX_ERR_INVALID_ARGS", regs |-> r, log |-> <<>>]
  ELSE IF seen # v
  THEN [st |-> "ZX_ERR_INTERNAL",
        regs |-> [r1 EXCEPT !.PowerControl.sd_bus_power_vdd1 = 0],
        log |-> <<"HostControl2", "PowerControl">>]
  ELSE [st |-> "ZX_OK", regs |-> r1, log |-> <<"HostControl2">>]

\* SdmmcSetBusWidth.
SetBusWidth(r, caps, bus_width) ==
  LET set(ext, four) == [r EXCEPT !.HostControl1.extended_data_transfer_width = ext,
                                  !.HostControl1.data_transfer_width_4bit = four]
  IN
  IF bus_width = "SDMMC_BUS_WIDTH_EIGHT" /\ "SDMMC_HOST_CAP_BUS_WIDTH_8" \notin caps
  THEN [st |-> "ZX_ERR_NOT_SUPPORTED", regs |-> r, log |-> <<>>]
  ELSE IF bus_width = "SDMMC_BUS_WIDTH_ONE"
  THEN [st |-> "ZX_OK", regs |-> set(0, 0), log |-> <<"HostControl1">>]
  ELSE IF bus_width = "SDMMC_BUS_WIDTH_FOUR"
  THEN [st |-> "ZX_OK", regs |-> set(0, 1), log |-> <<"HostControl1">>]
  ELSE IF bus_width = "SDMMC_BUS_WIDTH_EIGHT"
  THEN [st |-> "ZX_OK", regs |-> set(1, 0), log |-> <<"HostControl1">>]
  ELSE [st |-> "ZX_ERR_INVALID_ARGS", regs |-> r, log |-> <<>>]

\* The UHS mode the switch of SdmmcSetTiming selects; "none" for default:.
UhsMode(timing) ==
  IF timing \in {"SDMMC_TIMING_LEGACY", "SDMMC_TIMING_SDR12"} THEN "kUhsModeSdr12"
  ELSE IF timing \in {"SDMMC_TIMING_HS", "SDMMC_TIMING_SDR25"} THEN "kUhsModeSdr25"
  ELSE IF timing \in {"SDMMC_TIMING_HSDDR", "SDMMC_TIMING_DDR50"} THEN "kUhsModeDdr50"
  ELSE IF timing \in {"SDMMC_TIMING_HS200", "SDMMC_TIMING_SDR104"} THEN "kUhsModeSdr104"
  ELSE IF timing = "SDMMC_TIMING_HS400" THEN "kUhsModeHs400"
  ELSE IF timing = "SDMMC_TIMING_SDR50" THEN "kUhsModeSdr50"
  ELSE "none"

\* SdmmcSetTiming: HostControl1 is written with the high-speed bit before
\* the switch looks at the timing value.
SetTiming(r, timing) ==
  LET r1 == [r EXCEPT !.HostControl1.high_speed_enable =
                        IF timing # "SDMMC_TIMING_LEGACY" THEN 1 ELSE 0]
  IN
  IF UhsMode(timing) = "none"
  THEN [st |-> "ZX_ERR_INVALID_ARGS", regs |-> r1, log |-> <<"HostControl1">>]
  ELSE [st |-> "ZX_OK",
        regs |-> [r1 EXCEPT !.HostControl2.uhs_mode_select = UhsMode(timing)],
        log |-> <<"HostControl1", "HostControl2">>]

\* A setter runs under mtx_ from its first to its last statement.
Configured(op, arg, res) ==
  /\ mtx_ = NoOwner
  /\ regs' = res.regs
  /\ wlog' = [i \in 1..Len(res.log) |-> <<res.log[i], {}>>]
  /\ call' = [op |-> op, arg |-> arg, st |-> res.st]
  /\ UNCHANGED <<mtx_, cmd_req_, data_req_, data_blockid_, data_done_, req_completion_,
                 interrupt_cb_, card_interrupt_masked_, InterruptStatus,
                 InterruptSignalEnable, InterruptStatusEnable, SoftwareReset, Response,
                 reqs, ret, pc, irq_pc, irq, host, workload, tune>>

SdmmcSetSignalVoltage(voltage) ==
  \E latched \in BOOLEAN :
    Configured("SdmmcSetSignalVoltage", voltage,
               SetSignalVoltage(regs, host.caps, voltage, latched))

SdmmcSetBusWidth(bus_width) ==
  Configured("SdmmcSetBusWidth", bus_width, SetBusWidth(regs, host.caps, bus_width))

SdmmcSetTiming(timing) ==
  Configured("SdmmcSetTiming", timing, SetTiming(regs, timing))

\* The capabilities Init may find (info_.caps).
ConfigHosts ==
  { [caps |-> caps] : caps \in SUBSET {"SDMMC_HOST_CAP_VOLTAGE_330", "SDMMC_HOST_CAP_BUS_WIDTH_8"} }

Idle ==
  /\ mtx_ = NoOwner
  /\ cmd_req_ = nullptr
  /\ data_req_ = nullptr
  /\ data_blockid_ = 0
  /\ data_done_ = FALSE
  /\ req_completion_ = FALSE
  /\ interrupt_cb_ = FALSE
  /\ card_interrupt_masked_ = FALSE
  /\ InterruptStatus = {}
  /\ InterruptSignalEnable = {}
  /\ InterruptStatusEnable = {}
  /\ SoftwareReset = {}
  /\ Response = NoResponse
  /\ reqs = [c \in Callers |-> NoRequest]
  /\ ret = [c \in Callers |-> "NONE"]
  /\ pc = [c \in Callers |-> "idle"]
  /\ irq_pc = "wait"
  /\ irq = {}
  /\ wlog = <<>>
  /\ workload = [callers |-> {}, shapes |-> {}, bits |-> {}]

InitConfig ==
  /\ Idle
  /\ host \in ConfigHosts
  /\ regs = ResetRegs
  /\ tune = NoTuning
  /\ call = NoCall

NextConfig ==
  \/ \E voltage \in Voltages : SdmmcSetSignalVoltage(voltage)
  \/ \E bus_width \in BusWidths : SdmmcSetBusWidth(bus_width)
  \/ \E timing \in Timings : SdmmcSetTiming(timing)

SpecConfig == InitConfig /\ [][NextConfig]_vars

\* --------------------------------------- descriptor building on its own
\* BuildDmaDescriptor applied to one request, one controller configuration
\* and one pinned page list.
DmaBlockCounts == {0, 1, 8, 24, 40, 128, 136, 4096}

DmaOffsets == {0, 512}

DmaShapes ==
  { [cmd_idx |-> 18, cmd_flags |-> OversizedShape.cmd_flags, blockcount |-> n,
     blocksize |-> 512, use_dma |-> TRUE, buf_offset |-> off] :
      n \in DmaBlockCounts, off \in DmaOffsets }

\* dma_boundary_alignment_ values: 2 KiB, 8 KiB and 128 MiB.
DmaAlignments == {Units(2048), Units(8192), Units(134217728)}

DmaHosts ==
  { [quirks |-> {}, dma_boundary_alignment |-> 0, adma2 |-> TRUE, addr64 |-> a,
     iobuf_phys |-> 16 * PageSize] : a \in BOOLEAN }
  \cup { [quirks |-> {"SDHCI_QUIRK_USE_DMA_BOUNDARY_ALIGNMENT"}, dma_boundary_alignment |-> al,
          adma2 |-> TRUE, addr64 |-> a, iobuf_phys |-> 16 * PageSize] :
           al \in DmaAlignments, a \in BOOLEAN }

\* Where the first pinned page may lie: at 1 MiB, two pages below 128 MiB,
\* and above the 32-bit limit.
DmaBases == {256 * PageSize, Units(134217728) - 2 * PageSize, Limit32 + 256 * PageSize}

\* Page lists bti_.pin may hand out for n pages: physically contiguous, every
\* page apart from the next, and contiguous in groups of three.
DmaPageLists(n) ==
  IF n > SDMMC_PAGES_COUNT THEN { <<>> }
  ELSE UNION { { [i \in 1..n |-> base + (i - 1) * PageSize],
                 [i \in 1..n |-> base + 2 * (i - 1) * PageSize],
                 [i \in 1..n |-> base + ((i - 1) + ((i - 1) \div 3)) * PageSize] } :
               base \in DmaBases }

InitDma ==
  /\ Idle
  /\ host \in DmaHosts
  /\ regs = ResetRegs
  /\ tune = NoTuning
  /\ \E shape \in DmaShapes :
       /\ PageCount(shape) <= SDMMC_PAGES_COUNT
       /\ \E phys \in DmaPageLists(PageCount(shape)) :
            call = [op |-> "BuildDmaDescriptor", arg |-> NewRequest(shape),
                    loop |-> LoopStart(phys, shape)]

\* One pass through the for loop of BuildDmaDescriptor, pin and cache
\* operations having succeeded.
DescriptorLoopStep ==
  /\ call.op = "BuildDmaDescriptor"
  /\ call.loop.st = "RUN"
  /\ call' = [call EXCEPT !.loop = DescriptorStep(@, host.addr64, host.quirks,
                                                  host.dma_boundary_alignment)]
  /\ UNCHANGED <<mtx_, cmd_req_, data_req_, data_blockid_, data_done_, req_completion_,
                 interrupt_cb_, card_interrupt_masked_, InterruptStatus,
                 InterruptSignalEnable, InterruptStatusEnable, SoftwareReset, Response,
                 reqs, ret, pc, irq_pc, irq, wlog, host, workload, regs, tune>>

NextDma == DescriptorLoopStep

SpecDma == InitDma /\ [][NextDma]_vars

\* ------------------------------------------------------ a host without DMA
\* A controller whose capabilities lack ADMA2, and one caller submitting a
\* command without data, a programmed-I/O read, a DMA read and a DMA write.
NoDmaHosts ==
  { [quirks |-> {}, dma_boundary_alignment |-> 0, adma2 |-> FALSE, addr64 |-> FALSE,
     iobuf_phys |-> 16 * PageSize] }

NoDmaWorkload ==
  [callers |-> {1},
   shapes |-> { Shape(13, {"SDMMC_RESP_LEN_48", "SDMMC_CMD_TYPE_NORMAL"}, 0, FALSE),
                Shape(18, {"SDMMC_RESP_LEN_48", "SDMMC_CMD_TYPE_NORMAL",
                           "SDMMC_RESP_DATA_PRESENT", "SDMMC_CMD_READ"}, 1, FALSE),
                Shape(18, {"SDMMC_RESP_LEN_48", "SDMMC_CMD_TYPE_NORMAL",
                           "SDMMC_RESP_DATA_PRESENT", "SDMMC_CMD_READ", "SDMMC_CMD_DMA_EN"},
                      1, TRUE),
                Shape(25, {"SDMMC_RESP_LEN_48", "SDMMC_CMD_TYPE_NORMAL",
                           "SDMMC_RESP_DATA_PRESENT", "SDMMC_CMD_DMA_EN"}, 1, TRUE) },
   bits |-> {"command_complete", "transfer_complete", "buffer_read_ready", "error"}]

InitNoDma ==
  /\ mtx_ = NoOwner
  /\ cmd_req_ = nullptr
  /\ data_req_ = nullptr
  /\ data_blockid_ = 0
  /\ data_done_ = FALSE
  /\ req_completion_ = FALSE
  /\ interrupt_cb_ = FALSE
  /\ card_interrupt_masked_ = FALSE
  /\ InterruptStatus = {}
  /\ InterruptSignalEnable = {}
  /\ InterruptStatusEnable = {}
  /\ SoftwareReset = {}
  /\ Response = NoResponse
  /\ reqs = [c \in Callers |-> NoRequest]
  /\ ret = [c \in Callers |-> "NONE"]
  /\ pc = [c \in Callers |-> "idle"]
  /\ irq_pc = "wait"
  /\ irq = {}
  /\ wlog = <<>>
  /\ workload = NoDmaWorkload
  /\ host \in NoDmaHosts
  /\ regs = ResetRegs
  /\ tune = NoTuning
  /\ call = NoCall

SpecNoDma == InitNoDma /\ [][Next]_vars

\* ------------------------------------------------ the issue of one request
\* StartRequestLocked applied to one DMA request on controllers with 32- and
\* 64-bit descriptors, with and without the boundary quirk. Init refuses a
\* controller with 32-bit descriptors whose descriptor table lies above the
\* 32-bit limit, so only 64-bit controllers have one there.
StartBlockCounts == {0, 1, 8, 24, 136}

StartShapes ==
  { [cmd_idx |-> 18, cmd_flags |-> OversizedShape.cmd_flags, blockcount |-> n,
     blocksize |-> 512, use_dma |-> TRUE, buf_offset |-> off] :
      n \in StartBlockCounts, off \in DmaOffsets }

StartHosts ==
  { h \in [quirks : {{}, {"SDHCI_QUIRK_USE_DMA_BOUNDARY_ALIGNMENT"}},
           dma_boundary_alignment : {0, Units(8192)}, adma2 : {TRUE}, addr64 : BOOLEAN,
           iobuf_phys : {16 * PageSize, Limit32 + 16 * PageSize}] :
      /\ (h.quirks = {}) <=> (h.dma_boundary_alignment = 0)
      /\ h.addr64 \/ h.iobuf_phys < Limit32 }

\* Where the first pinned page may lie: at 1 MiB, two pages below the 32-bit
\* limit, and above it.
StartBases == {256 * PageSize, Limit32 - 2 * PageSize, Limit32 + 256 * PageSize}

\* Page lists bti_.pin may hand out for n pages: physically contiguous, and
\* every page apart from the next.
StartPageLists(n) ==
  UNION { { [i \in 1..n |-> base + (i - 1) * PageSize],
            [i \in 1..n |-> base + 2 * (i - 1) * PageSize] } : base \in StartBases }

InitStart ==
  /\ Idle
  /\ host \in StartHosts
  /\ regs = ResetRegs
  /\ tune = NoTuning
  /\ \E shape \in StartShapes : \E phys \in StartPageLists(PageCount(shape)) :
       call = [op |-> "StartRequestLocked", arg |-> NewRequest(shape), phys |-> phys,
               st |-> "NONE", descs |-> <<>>]

\* StartRequestLocked(req) with both slots empty; call.descs keeps the
\* descriptors BuildDmaDescriptor has stored in the table.
CallStartRequestLocked ==
  /\ call.op = "StartRequestLocked"
  /\ call.st = "NONE"
  /\ \E ps \in InhibitReads, pin_st \in PinResults, cache_st \in CacheResults,
        desc_cache_st \in CacheResults :
       LET e == [pin_st |-> pin_st, cache_st |-> cache_st, phys |-> call.phys,
                 desc_cache_st |-> desc_cache_st]
           d == [Drv EXCEPT !.reqs[1] = call.arg]
           res == StartRequestLocked(d, 1, ps, e)
           built == WaitForInhibit(ps, InhibitMask(call.arg.cmd_flags)) = "ZX_OK"
       IN /\ SetDrv(res.d)
          /\ call' = [call EXCEPT !.st = res.st,
                                  !.descs = IF built
                                            THEN BuildDmaDescriptor(Polled(d, ps), 1, e).descs
                                            ELSE <<>>]
  /\ UNCHANGED <<mtx_, interrupt_cb_, Response, ret, pc, irq_pc, irq, host, workload,
                 regs, tune>>

NextStart == CallStartRequestLocked

SpecStart == InitStart /\ [][NextStart]_vars

\* ----------------------------------------------------------------- unbind
\* One caller submitting a command without data or a one-block programmed
\* I/O read while the device is unbound.
UnbindWorkload ==
  [callers |-> {1},
   shapes |-> { Shape(13, {"SDMMC_RESP_LEN_48", "SDMMC_CMD_TYPE_NORMAL"}, 0, FALSE),
                Shape(18, {"SDMMC_RESP_LEN_48", "SDMMC_CMD_TYPE_NORMAL",
                           "SDMMC_RESP_DATA_PRESENT", "SDMMC_CMD_READ"}, 1, FALSE) },
   bits |-> {"command_complete", "transfer_complete", "buffer_read_ready", "error"}]

InitUnbind ==
  /\ mtx_ = NoOwner
  /\ cmd_req_ = nullptr
  /\ data_req_ = nullptr
  /\ data_blockid_ = 0
  /\ data_done_ = FALSE
  /\ req_completion_ = FALSE
  /\ interrupt_cb_ = FALSE
  /\ card_interrupt_masked_ = FALSE
  /\ InterruptStatus = {}
  /\ InterruptSignalEnable = {}
  /\ InterruptStatusEnable = {}
  /\ SoftwareReset = {}
  /\ Response = NoResponse
  /\ reqs = [c \in Callers |-> NoRequest]
  /\ ret = [c \in Callers |-> "NONE"]
  /\ pc = [c \in Callers |-> "idle"]
  /\ irq_pc = "wait"
  /\ irq = {}
  /\ wlog = <<>>
  /\ workload = UnbindWorkload
  /\ host \in Hosts
  /\ regs = ResetRegs
  /\ tune = NoTuning
  /\ call = NoCall

\* irq_ has been destroyed.
Destroyed == call.op = "DdkUnbind"

UnbindUnchanged ==
  UNCHANGED <<mtx_, cmd_req_, data_req_, data_blockid_, data_done_, req_completion_,
              interrupt_cb_, card_interrupt_masked_, InterruptStatus,
              InterruptSignalEnable, InterruptStatusEnable, SoftwareReset, Response,
              reqs, ret, pc, irq, wlog, host, workload, regs, tune>>

\* DdkUnbind: irq_.destroy(), then the thread blocks in thrd_join.
DdkUnbind ==
  /\ ~Destroyed
  /\ call' = [op |-> "DdkUnbind", arg |-> "none", st |-> "thrd_join"]
  /\ irq_pc' = irq_pc
  /\ UnbindUnchanged

\* Variant: the interrupt thread fails the outstanding request on its way out.
IrqThreadExit_CompletesRequest ==
  /\ Destroyed
  /\ irq_pc = "wait"
  /\ irq_pc' = "exited"
  /\ SetDrv(IF cmd_req_ # nullptr THEN CompleteRequestLocked(Drv, cmd_req_, "ZX_ERR_CANCELED")
            ELSE IF data_req_ # nullptr
                 THEN CompleteRequestLocked(Drv, data_req_, "ZX_ERR_CANCELED")
                 ELSE Drv)
  /\ UNCHANGED <<mtx_, interrupt_cb_, Response, ret, pc, irq, host, workload, regs,
                 tune, call>>

\* WaitForInterrupt returns ZX_ERR_CANCELED: break, return thrd_success.
IrqThreadExit ==
  /\ Destroyed
  /\ irq_pc = "wait"
  /\ irq_pc' = "exited"
  /\ call' = call
  /\ UnbindUnchanged

\* thrd_join returns, txn.Reply().
DdkUnbindReply ==
  /\ Destroyed
  /\ call.st = "thrd_join"
  /\ irq_pc = "exited"
  /\ call' = [call EXCEPT !.st = "replied"]
  /\ irq_pc' = irq_pc
  /\ UnbindUnchanged

NextUnbind ==
  \/ \E c \in Callers : SdmmcRequestEnter(c)
  \/ \E c \in Callers : SdmmcRequestIssue(c)
  \/ \E c \in Callers : SdmmcRequestFail(c)
  \/ \E c \in Callers : SdmmcRequestFailReturn(c)
  \/ \E c \in Callers : SdmmcRequestWake(c)
  \/ \E c \in Callers : SdmmcRequestFinish(c)
  \/ \E c \in Callers : SdmmcRequestReturn(c)
  \/ (~Destroyed /\ IrqWake)
  \/ IrqLock
  \/ IrqHandle
  \/ \E b \in IrqBits : HwRaise(b)
  \/ HwResetDone
  \/ DdkUnbind
  \/ IrqThreadExit
  \/ DdkUnbindReply

SpecUnbind == InitUnbind /\ [][NextUnbind]_vars

\* ------------------------------------------------------- in-band interrupt
\* One caller issuing a command without data or a one-block read while the
\* client registers for the card interrupt and acknowledges it.
CardWorkload ==
  [callers |-> {1},
   shapes |-> { Shape(13, {"SDMMC_RESP_LEN_48", "SDMMC_CMD_TYPE_NORMAL"}, 0, FALSE),
                Shape(18, {"SDMMC_RESP_LEN_48", "SDMMC_CMD_TYPE_NORMAL",
                           "SDMMC_RESP_DATA_PRESENT", "SDMMC_CMD_READ"}, 1, FALSE) },
   bits |-> {"command_complete", "transfer_complete", "error", "card_interrupt"}]

\* The client of the in-band interrupt: arg is the last call it made, st
\* whether its callback was invoked since its last acknowledge.
NoClient == [op |-> "InBandInterrupt", arg |-> "none", st |-> "idle"]

InitCard ==
  /\ mtx_ = NoOwner
  /\ cmd_req_ = nullptr
  /\ data_req_ = nullptr
  /\ data_blockid_ = 0
  /\ data_done_ = FALSE
  /\ req_completion_ = FALSE
  /\ interrupt_cb_ = FALSE
  /\ card_interrupt_masked_ = FALSE
  /\ InterruptStatus = {}
  /\ InterruptSignalEnable = {}
  /\ InterruptStatusEnable = {}
  /\ SoftwareReset = {}
  /\ Response = NoResponse
  /\ reqs = [c \in Callers |-> NoRequest]
  /\ ret = [c \in Callers |-> "NONE"]
  /\ pc = [c \in Callers |-> "idle"]
  /\ irq_pc = "wait"
  /\ irq = {}
  /\ wlog = <<>>
  /\ workload = CardWorkload
  /\ host \in Hosts
  /\ regs = ResetRegs
  /\ tune = NoTuning
  /\ call = NoClient

CardUnchanged ==
  UNCHANGED <<mtx_, cmd_req_, data_req_, data_blockid_, data_done_, req_completion_,
              InterruptStatus, SoftwareReset, Response, reqs, ret, pc, irq_pc, irq,
              host, workload, regs, tune>>

\* Variant: the callback is not invoked for an interrupt taken earlier.
SdmmcRegisterInBandInterrupt_NoCallback ==
  /\ call.op = "InBandInterrupt"
  /\ ~interrupt_cb_
  /\ mtx_ = NoOwner
  /\ interrupt_cb_' = TRUE
  /\ InterruptSignalEnable' = InterruptSignalEnable \cup CardBit
  /\ InterruptStatusEnable' = IF card_interrupt_masked_
                              THEN InterruptStatusEnable \ CardBit
                              ELSE InterruptStatusEnable \cup CardBit
  /\ card_interrupt_masked_' = card_interrupt_masked_
  /\ call' = [call EXCEPT !.arg = "SdmmcRegisterInBandInterrupt"]
  /\ wlog' = <<<<"InterruptSignalEnable", {}>>, <<"InterruptStatusEnable", {}>>>>
  /\ CardUnchanged

\* SdmmcRegisterInBandInterrupt, under mtx_ from its first to its last line.
SdmmcRegisterInBandInterrupt ==
  /\ call.op = "InBandInterrupt"
  /\ ~interrupt_cb_
  /\ mtx_ = NoOwner
  /\ interrupt_cb_' = TRUE
  /\ InterruptSignalEnable' = InterruptSignalEnable \cup CardBit
  /\ InterruptStatusEnable' = IF card_interrupt_masked_
                              THEN InterruptStatusEnable \ CardBit
                              ELSE InterruptStatusEnable \cup CardBit
  /\ card_interrupt_masked_' = card_interrupt_masked_
  /\ call' = IF card_interrupt_masked_
             THEN Callback([call EXCEPT !.arg = "SdmmcRegisterInBandInterrupt"])
             ELSE [call EXCEPT !.arg = "SdmmcRegisterInBandInterrupt"]
  /\ wlog' = <<<<"InterruptSignalEnable", {}>>, <<"InterruptStatusEnable", {}>>>>
  /\ CardUnchanged

\* SdmmcAckInBandInterrupt, under mtx_; the code does not ask whether a
\* callback is registered or a card interrupt was taken.
SdmmcAckInBandInterrupt ==
  /\ call.op = "InBandInterrupt"
  /\ mtx_ = NoOwner
  /\ InterruptStatusEnable' = InterruptStatusEnable \cup CardBit
  /\ card_interrupt_masked_' = FALSE
  /\ call' = [call EXCEPT !.arg = "SdmmcAckInBandInterrupt", !.st = "idle"]
  /\ wlog' = <<<<"InterruptStatusEnable", {}>>>>
  /\ UNCHANGED <<interrupt_cb_, InterruptSignalEnable>>
  /\ CardUnchanged

NextCard ==
  \/ \E c \in Callers : SdmmcRequestEnter(c)
  \/ \E c \in Callers : SdmmcRequestIssue(c)
  \/ \E c \in Callers : SdmmcRequestFail(c)
  \/ \E c \in Callers : SdmmcRequestFailReturn(c)
  \/ \E c \in Callers : SdmmcRequestWake(c)
  \/ \E c \in Callers : SdmmcRequestFinish(c)
  \/ \E c \in Callers : SdmmcRequestReturn(c)
  \/ IrqWake
  \/ IrqLock
  \/ IrqHandle
  \/ \E b \in IrqBits : HwRaise(b)
  \/ HwResetDone
  \/ SdmmcRegisterInBandInterrupt
  \/ SdmmcAckInBandInterrupt

SpecCard == InitCard /\ [][NextCard]_vars

\* --------------------------------------------------------------- responses
\* Register words the controller may hold in Response0..3: all bits clear,
\* all bits set, only the top and the bottom bit, and four distinct bytes.
ResponseWords == { <<0, 0, 0, 0>>, <<255, 255, 255, 255>>, <<128, 0, 0, 1>>, <<18, 52, 86, 120>> }

ResponseQuirks ==
  SUBSET {"SDHCI_QUIRK_STRIP_RESPONSE_CRC", "SDHCI_QUIRK_STRIP_RESPONSE_CRC_PRESERVE_ORDER"}

ResponseFlags ==
  { {"SDMMC_RESP_LEN_136"}, {"SDMMC_RESP_LEN_48"}, {"SDMMC_RESP_LEN_48B"}, {} }

\* What req->response holds before the command completes.
StaleResponse == << <<1, 2, 3, 4>>, <<5, 6, 7, 8>>, <<9, 10, 11, 12>>, <<13, 14, 15, 16>> >>

InitResponse ==
  /\ mtx_ = NoOwner
  /\ cmd_req_ = nullptr
  /\ data_req_ = nullptr
  /\ data_blockid_ = 0
  /\ data_done_ = FALSE
  /\ req_completion_ = FALSE
  /\ interrupt_cb_ = FALSE
  /\ card_interrupt_masked_ = FALSE
  /\ InterruptStatus = {}
  /\ InterruptSignalEnable = {}
  /\ InterruptStatusEnable = {}
  /\ SoftwareReset = {}
  /\ Response \in [1..4 -> ResponseWords]
  /\ reqs = [c \in Callers |-> NoRequest]
  /\ ret = [c \in Callers |-> "NONE"]
  /\ pc = [c \in Callers |-> "idle"]
  /\ irq_pc = "wait"
  /\ irq = {}
  /\ wlog = <<>>
  /\ workload = [callers |-> {}, shapes |-> {}, bits |-> {}]
  /\ \E quirks \in ResponseQuirks : host = [quirks |-> quirks]
  /\ regs = ResetRegs
  /\ tune = NoTuning
  /\ \E cmd_flags \in ResponseFlags :
       call = [op |-> "ReadResponse", arg |-> cmd_flags, st |-> "NONE",
               result |-> StaleResponse]

\* The response part of CmdStageCompleteLocked for a pending command with
\* the flags call.arg.
CallReadResponse ==
  /\ call.op = "ReadResponse"
  /\ call.st = "NONE"
  /\ call' = [call EXCEPT !.st = "DONE",
                          !.result = ReadResponse(call.arg, host.quirks, @, Response)]
  /\ UNCHANGED <<mtx_, cmd_req_, data_req_, data_blockid_, data_done_, req_completion_,
                 interrupt_cb_, card_interrupt_masked_, InterruptStatus,
                 InterruptSignalEnable, InterruptStatusEnable, SoftwareReset, Response,
                 reqs, ret, pc, irq_pc, irq, wlog, host, workload, regs, tune>>

NextResponse == CallReadResponse

SpecResponse == InitResponse /\ [][NextResponse]_vars

\* ---------------------------------------------------------- clock divider
\* The 10-bit SDCLK frequency select field of ClockControl (sdhci-reg.h).
kMaxFrequencySelect == 1023

\* Clock rates are taken below 2^30 Hz: up to there no uint32_t product or
\* sum of GetClockDividerValue wraps, and every value fits the checker's
\* integers; the uint16_t cast of the result is performed as written.
MaxClockHz == 1073741823

\* uint16_t GetClockDividerValue(uint32_t base_clock, uint32_t target_rate)
GetClockDividerValue(base_clock, target_rate) ==
  IF target_rate >= base_clock
  THEN 0
  ELSE LET quotient == base_clock \div (2 * target_rate)
           result == IF quotient * target_rate * 2 < base_clock THEN quotient + 1 ELSE quotient
       IN Min(kMaxFrequencySelect, result % Word16)

\* Base clocks (base_clock_ from the capabilities register or the platform)
\* and target rates (kSdFreqSetupHz and the bus frequencies of SdmmcSetBusFreq,
\* which calls with a nonzero rate only).
BaseClocks ==
  (1..12) \cup { 400000, 50000000, 100000000, 131072000, 200000000, 208000000, MaxClockHz }

TargetRates ==
  (1..12) \cup { 763, 1000, 1525, 1526, 3052, 97752, 97753, 400000, 25000000, 26000000,
                 50000000, 52000000, 100000000, 200000000, 208000000, MaxClockHz }

InitClock ==
  /\ Idle
  /\ \E base_clock \in BaseClocks : host = [base_clock |-> base_clock]
  /\ regs = ResetRegs
  /\ tune = NoTuning
  /\ \E target_rate \in TargetRates :
       call = [op |-> "GetClockDividerValue", arg |-> target_rate, st |-> "NONE", result |-> 0]

CallGetClockDividerValue ==
  /\ call.op = "GetClockDividerValue"
  /\ call.st = "NONE"
  /\ call' = [call EXCEPT !.st = "DONE",
                          !.result = GetClockDividerValue(host.base_clock, call.arg)]
  /\ UNCHANGED <<mtx_, cmd_req_, data_req_, data_blockid_, data_done_, req_completion_,
                 interrupt_cb_, card_interrupt_masked_, InterruptStatus,
                 InterruptSignalEnable, InterruptStatusEnable, SoftwareReset, Response,
                 reqs, ret, pc, irq_pc, irq, wlog, host, workload, regs, tune>>

NextClock == CallGetClockDividerValue

SpecClock == InitClock /\ [][NextClock]_vars

\* ---------------------------------------------------------- bus frequency
\* WaitForInternalClockStable, given whether the last read of ClockControl it
\* made before its deadline showed internal_clock_stable set.
WaitForInternalClockStable(stable) == IF stable THEN "ZX_OK" ELSE "ZX_ERR_TIMED_OUT"

\* The fields of ClockControl the driver writes.
ClockFields(clock) ==
  [sd_clock_enable |-> clock.sd_clock_enable,
   internal_clock_enable |-> clock.internal_clock_enable,
   frequency_select |-> clock.frequency_select]

\* Variant: the SD clock is turned back on without looking at the result of
\* the wait for the internal clock.
SetBusFreq_EnablesUnstable(r, ps, base_clock, bus_freq, stable) ==
  LET inhibit == WaitForInhibit(ps, {"command_inhibit_cmd", "command_inhibit_dat"})
      poll == <<"PresentState", ps>>
      c0 == [r.ClockControl EXCEPT !.sd_clock_enable = 0]
      c1 == [c0 EXCEPT !.internal_clock_enable = 0, !.internal_clock_stable = 0]
      c2 == [c1 EXCEPT !.frequency_select = GetClockDividerValue(base_clock, bus_freq),
                       !.internal_clock_enable = 1,
                       !.internal_clock_stable = IF stable THEN 1 ELSE 0]
      c3 == [c2 EXCEPT !.sd_clock_enable = 1]
      seen == <<"ClockControl.internal_clock_stable", IF stable THEN {"internal_clock_stable"} ELSE {}>>
      wr(c) == <<"ClockControl", ClockFields(c)>>
  IN
  IF inhibit # "ZX_OK" THEN [st |-> inhibit, regs |-> r, log |-> <<poll>>]
  ELSE IF bus_freq = 0
  THEN [st |-> "ZX_OK", regs |-> [r EXCEPT !.ClockControl = c0], log |-> <<poll, wr(c0)>>]
  ELSE [st |-> WaitForInternalClockStable(stable),
        regs |-> [r EXCEPT !.ClockControl = c3],
        log |-> <<poll, wr(c1), wr(c2), seen, wr(c3)>>]

\* SdmmcSetBusFreq on the registers r: ps is the PresentState value the last
\* poll of WaitForInhibit reads, stable what WaitForInternalClockStable sees.
\* The hardware drops internal_clock_stable when the internal clock is
\* disabled. The log holds the values written to ClockControl.
SetBusFreq(r, ps, base_clock, bus_freq, stable) ==
  LET inhibit == WaitForInhibit(ps, {"command_inhibit_cmd", "command_inhibit_dat"})
      poll == <<"PresentState", ps>>
      c0 == [r.ClockControl EXCEPT !.sd_clock_enable = 0]
      c1 == [c0 EXCEPT !.internal_clock_enable = 0, !.internal_clock_stable = 0]
      c2 == [c1 EXCEPT !.frequency_select = GetClockDividerValue(base_clock, bus_freq),
                       !.internal_clock_enable = 1,
                       !.internal_clock_stable = IF stable THEN 1 ELSE 0]
      c3 == [c2 EXCEPT !.sd_clock_enable = 1]
      seen == <<"ClockControl.internal_clock_stable", IF stable THEN {"internal_clock_stable"} ELSE {}>>
      wr(c) == <<"ClockControl", ClockFields(c)>>
  IN
  IF inhibit # "ZX_OK" THEN [st |-> inhibit, regs |-> r, log |-> <<poll>>]
  ELSE IF bus_freq = 0
  THEN [st |-> "ZX_OK", regs |-> [r EXCEPT !.ClockControl = c0], log |-> <<poll, wr(c0)>>]
  ELSE IF WaitForInternalClockStable(stable) # "ZX_OK"
  THEN [st |-> "ZX_ERR_TIMED_OUT", regs |-> [r EXCEPT !.ClockControl = c2],
        log |-> <<poll, wr(c1), wr(c2), seen>>]
  ELSE [st |-> "ZX_OK", regs |-> [r EXCEPT !.ClockControl = c3],
        log |-> <<poll, wr(c1), wr(c2), seen, wr(c3)>>]

\* The bus frequencies the SD/MMC core asks for; 0 turns the SD clock off.
BusFreqs == {0, 400000, 25000000, 50000000, 200000000}

FreqBaseClocks == {100000000, 200000000}

\* ClockControl as Init or an earlier SdmmcSetBusFreq may have left it.
ClockStates ==
  [sd_clock_enable : {0, 1}, internal_clock_enable : {1}, frequency_select : {0, 128},
   internal_clock_stable : {1}]

InitFreq ==
  /\ Idle
  /\ \E base_clock \in FreqBaseClocks : host = [base_clock |-> base_clock]
  /\ \E clock \in ClockStates :
       regs = [HostControl1 |-> ResetRegs.HostControl1, HostControl2 |-> ResetRegs.HostControl2,
               PowerControl |-> ResetRegs.PowerControl, ClockControl |-> clock]
  /\ tune = NoTuning
  /\ call = NoCall

\* SdmmcSetBusFreq runs under mtx_ from its first to its last statement.
SdmmcSetBusFreq(bus_freq) ==
  /\ mtx_ = NoOwner
  /\ \E ps \in InhibitReads, stable \in BOOLEAN :
       LET res == SetBusFreq(regs, ps, host.base_clock, bus_freq, stable)
       IN /\ regs' = res.regs
          /\ wlog' = res.log
          /\ call' = [op |-> "SdmmcSetBusFreq", arg |-> bus_freq, st |-> res.st]
  /\ UNCHANGED <<mtx_, cmd_req_, data_req_, data_blockid_, data_done_, req_completion_,
                 interrupt_cb_, card_interrupt_masked_, InterruptStatus,
                 InterruptSignalEnable, InterruptStatusEnable, SoftwareReset, Response,
                 reqs, ret, pc, irq_pc, irq, host, workload, tune>>

NextFreq == \E bus_freq \in BusFreqs : SdmmcSetBusFreq(bus_freq)

SpecFreq == InitFreq /\ [][NextFreq]_vars

\* ------------------------------------------------------------- the mutex
\* Every entry point that takes mtx_ and the interrupt thread, side by side:
\* two callers of SdmmcRequest, the four setters, the client of the in-band
\* interrupt and the hardware raising command-complete and the card interrupt.
\* No software reset is written for these commands.
MutexWorkload ==
  [callers |-> Callers,
   shapes |-> { Shape(13, {"SDMMC_RESP_LEN_48", "SDMMC_CMD_TYPE_NORMAL"}, 0, FALSE) },
   bits |-> {"command_complete", "card_interrupt"}]

MutexHosts ==
  { [quirks |-> {"SDHCI_QUIRK_STRIP_RESPONSE_CRC"}, dma_boundary_alignment |-> 0,
     adma2 |-> TRUE, addr64 |-> FALSE, iobuf_phys |-> 16 * PageSize,
     caps |-> {"SDMMC_HOST_CAP_VOLTAGE_330"}, base_clock |-> 100000000] }

InitMutex ==
  /\ mtx_ = NoOwner
  /\ cmd_req_ = nullptr
  /\ data_req_ = nullptr
  /\ data_blockid_ = 0
  /\ data_done_ = FALSE
  /\ req_completion_ = FALSE
  /\ interrupt_cb_ = FALSE
  /\ card_interrupt_masked_ = FALSE
  /\ InterruptStatus = {}
  /\ InterruptSignalEnable = {}
  /\ InterruptStatusEnable = {}
  /\ SoftwareReset = {}
  /\ Response = NoResponse
  /\ reqs = [c \in Callers |-> NoRequest]
  /\ ret = [c \in Callers |-> "NONE"]
  /\ pc = [c \in Callers |-> "idle"]
  /\ irq_pc = "wait"
  /\ irq = {}
  /\ wlog = <<>>
  /\ workload = MutexWorkload
  /\ host \in MutexHosts
  /\ regs = [HostControl1 |-> ResetRegs.HostControl1, HostControl2 |-> ResetRegs.HostControl2,
             PowerControl |-> ResetRegs.PowerControl,
             ClockControl |-> [sd_clock_enable |-> 1, internal_clock_enable |-> 1,
                               frequency_select |-> 2, internal_clock_stable |-> 1]]
  /\ tune = NoTuning
  /\ call = NoClient

\* Variant: the setter does not take mtx_.
LockedSetter_Unlocked(res) ==
  /\ regs' = res.regs
  /\ wlog' = res.log
  /\ UNCHANGED <<mtx_, cmd_req_, data_req_, data_blockid_, data_done_, req_completion_,
                 interrupt_cb_, card_interrupt_masked_, InterruptStatus,
                 InterruptSignalEnable, InterruptStatusEnable, SoftwareReset, Response,
                 reqs, ret, pc, irq_pc, irq, host, workload, tune, call>>

\* A setter between its fbl::AutoLock and its return, with the registers and
\* the register log it leaves; the record of the in-band client is not its.
LockedSetter(res) ==
  /\ mtx_ = NoOwner
  /\ regs' = res.regs
  /\ wlog' = res.log
  /\ UNCHANGED <<mtx_, cmd_req_, data_req_, data_blockid_, data_done_, req_completion_,
                 interrupt_cb_, card_interrupt_masked_, InterruptStatus,
                 InterruptSignalEnable, InterruptStatusEnable, SoftwareReset, Response,
                 reqs, ret, pc, irq_pc, irq, host, workload, tune, call>>

Logged(res) == [res EXCEPT !.log = [i \in 1..Len(res.log) |-> <<res.log[i], {}>>]]

\* The setters as a card driver calls them on a bus already running at 25
\* MHz, one bit wide, legacy timing: the switch to 1.8 V, and the three others
\* with the values in force; every poll succeeds at once.
MutexSetSignalVoltage ==
  LockedSetter(Logged(SetSignalVoltage(regs, host.caps, "SDMMC_VOLTAGE_V180", TRUE)))

MutexSetBusWidth ==
  LockedSetter(Logged(SetBusWidth(regs, host.caps, "SDMMC_BUS_WIDTH_ONE")))

MutexSetTiming ==
  LockedSetter(Logged(SetTiming(regs, "SDMMC_TIMING_LEGACY")))

MutexSetBusFreq ==
  LockedSetter(SetBusFreq(regs, {}, host.base_clock, 25000000, TRUE))

NextMutex ==
  \/ \E c \in Callers : SdmmcRequestEnter(c)
  \/ \E c \in Callers : SdmmcRequestIssue(c)
  \/ \E c \in Callers : SdmmcRequestFail(c)
  \/ \E c \in Callers : SdmmcRequestFailReturn(c)
  \/ \E c \in Callers : SdmmcRequestWake(c)
  \/ \E c \in Callers : SdmmcRequestFinish(c)
  \/ \E c \in Callers : SdmmcRequestReturn(c)
  \/ IrqWake
  \/ IrqLock
  \/ IrqHandle
  \/ \E b \in IrqBits : HwRaise(b)
  \/ SdmmcRegisterInBandInterrupt
  \/ SdmmcAckInBandInterrupt
  \/ MutexSetSignalVoltage
  \/ MutexSetBusWidth
  \/ MutexSetTiming
  \/ MutexSetBusFreq

SpecMutex == InitMutex /\ [][NextMutex]_vars

\* ------------------------------------------------------------------ tuning
kMaxTuningCount == 40

\* The statuses a tuning request returns. SdmmcRequestNew is declared in
\* sdhci.h; it is a synchronous request like SdmmcRequest.
RequestNewStatuses == {"ZX_OK", "ZX_ERR_TIMED_OUT", "ZX_ERR_IO", "ZX_ERR_SHOULD_WAIT"}

\* Variant: the loop goes on for as long as execute_tuning reads set.
TuningLoopCondition_NoCap(count, execute_tuning) == execute_tuning = 1

\* (count < kMaxTuningCount) && ctrl2.execute_tuning()
TuningLoopCondition(count, execute_tuning) ==
  count < kMaxTuningCount /\ execute_tuning = 1

\* Variant: use_tuned_clock is not looked at.
TuningResult_IgnoresTunedClock(execute_tuning, use_tuned_clock) ==
  IF execute_tuning = 1 THEN "ZX_ERR_IO" ELSE "ZX_OK"

\* fail = ctrl2.execute_tuning() || !ctrl2.use_tuned_clock()
TuningResult(execute_tuning, use_tuned_clock) ==
  IF execute_tuning = 1 \/ use_tuned_clock = 0 THEN "ZX_ERR_IO" ELSE "ZX_OK"

TuningUnchanged ==
  UNCHANGED <<mtx_, cmd_req_, data_req_, data_blockid_, data_done_, req_completion_,
              interrupt_cb_, card_interrupt_masked_, InterruptStatus,
              InterruptSignalEnable, InterruptStatusEnable, SoftwareReset, Response,
              reqs, ret, pc, irq_pc, irq, wlog, host, workload, call>>

\* The first locked block: the block size from HostControl1, execute_tuning
\* set in HostControl2 and in the local ctrl2.
SdmmcPerformTuningEnter(cmd_idx) ==
  /\ tune.pc \in {"idle", "done"}
  /\ mtx_ = NoOwner
  /\ regs' = [regs EXCEPT !.HostControl2.execute_tuning = 1]
  /\ tune' = [NoTuning EXCEPT
                !.pc = "loop",
                !.cmd_idx = cmd_idx,
                !.blocksize = IF regs.HostControl1.extended_data_transfer_width = 1
                              THEN 128 ELSE 64,
                !.execute_tuning = 1,
                !.use_tuned_clock = regs.HostControl2.use_tuned_clock]
  /\ TuningUnchanged

\* The loop condition holds and the body calls SdmmcRequestNew, which
\* returns; a status other than ZX_OK is returned at once.
SdmmcPerformTuningRequest ==
  /\ tune.pc = "loop"
  /\ TuningLoopCondition(tune.count, tune.execute_tuning)
  /\ \E st \in RequestNewStatuses :
       tune' = [tune EXCEPT !.issued = @ + 1,
                            !.req_st = st,
                            !.pc = IF st = "ZX_OK" THEN "read" ELSE "done",
                            !.st = IF st = "ZX_OK" THEN @ ELSE st]
  /\ UNCHANGED regs
  /\ TuningUnchanged

\* The rest of the loop body: ctrl2 is read again under the lock, count++.
SdmmcPerformTuningRead ==
  /\ tune.pc = "read"
  /\ mtx_ = NoOwner
  /\ tune' = [tune EXCEPT !.pc = "loop",
                          !.count = @ + 1,
                          !.execute_tuning = regs.HostControl2.execute_tuning,
                          !.use_tuned_clock = regs.HostControl2.use_tuned_clock,
                          !.all_set = @ /\ regs.HostControl2.execute_tuning = 1]
  /\ UNCHANGED regs
  /\ TuningUnchanged

\* The loop condition fails: the last read of ctrl2 under the lock and the
\* return value.
SdmmcPerformTuningReturn ==
  /\ tune.pc = "loop"
  /\ ~TuningLoopCondition(tune.count, tune.execute_tuning)
  /\ mtx_ = NoOwner
  /\ tune' = [tune EXCEPT !.pc = "done",
                          !.execute_tuning = regs.HostControl2.execute_tuning,
                          !.use_tuned_clock = regs.HostControl2.use_tuned_clock,
                          !.all_set = @ /\ regs.HostControl2.execute_tuning = 1,
                          !.st = TuningResult(regs.HostControl2.execute_tuning,
                                              regs.HostControl2.use_tuned_clock)]
  /\ UNCHANGED regs
  /\ TuningUnchanged

\* The controller changes the tuning fields of HostControl2 while a tuning
\* procedure is under way.
HwTuning ==
  /\ tune.pc \in {"loop", "read"}
  /\ \E execute_tuning \in {0, 1}, use_tuned_clock \in {0, 1} :
       /\ regs' = [regs EXCEPT !.HostControl2.execute_tuning = execute_tuning,
                               !.HostControl2.use_tuned_clock = use_tuned_clock]
       /\ regs' # regs
  /\ UNCHANGED tune
  /\ TuningUnchanged

InitTuning ==
  /\ Idle
  /\ host \in ConfigHosts
  /\ \E width \in {0, 1} :
       regs = [ResetRegs EXCEPT !.HostControl1.extended_data_transfer_width = width]
  /\ tune = NoTuning
  /\ call = NoCall

TuningThreadStep ==
  \/ SdmmcPerformTuningRequest
  \/ SdmmcPerformTuningRead
  \/ SdmmcPerformTuningReturn

NextTuning ==
  \/ \E cmd_idx \in {MMC_SEND_TUNING_BLOCK, SD_SEND_TUNING_BLOCK} : SdmmcPerformTuningEnter(cmd_idx)
  \/ SdmmcPerformTuningRequest
  \/ SdmmcPerformTuningRead
  \/ SdmmcPerformTuningReturn
  \/ HwTuning

\* The thread inside SdmmcPerformTuning keeps running: mtx_ is held for
\* bounded register accesses only and the synchronous request returns.
SpecTuning == InitTuning /\ [][NextTuning]_vars /\ WF_vars(TuningThreadStep)

\* ------------------------------------------------------------------ claims
Slots == {cmd_req_, data_req_} \ {nullptr}

SlotState == <<cmd_req_, data_req_, data_blockid_, data_done_>>

\* The registers a driver step wrote, and the PresentState values it polled.
Written(log) == { log[i][1] : i \in { j \in 1..Len(log) : log[j][1] # "PresentState" } }

PolledBits(log) == UNION { log[i][2] : i \in { j \in 1..Len(log) : log[j][1] = "PresentState" } }

WriteCount(log, reg) == Cardinality({ i \in 1..Len(log) : log[i][1] = reg })

\* Caller c's step out of the locked section of SdmmcRequest, the step that
\* runs FinishRequest, and the step that returns.
IssueStep(c) == pc[c] = "locked" /\ pc'[c] # "locked"

ReturnStep(c) == pc[c] \in {"reset", "failed_return"} /\ pc'[c] = "idle"

\* The interrupt thread's dispatch step.
DispatchStep == irq_pc = "dispatch" /\ irq_pc' = "wait"

\* C1 (as stated): every request that went through StartRequestLocked has,
\* when its SdmmcRequest call is about to return, been completed exactly
\* once: one status stored, one signal - also when StartRequestLocked failed.
C1_ExactlyOnceOnEveryPath ==
  \A c \in Callers :
    (pc[c] \in {"reset", "failed_return"} /\ reqs[c].issue # "ZX_ERR_SHOULD_WAIT")
      => (reqs[c].completions = 1 /\ reqs[c].status # "UNSET")

\* C1 (amended): a request is completed (status stored, req_completion_
\* signalled) at most once, and only after a successful issue; a stored
\* status comes with exactly one signal; once the slots no longer hold a
\* successfully issued request it has been completed exactly once; a request
\* that failed in StartRequestLocked or was rejected as busy is never
\* signalled and has no status stored.
C1_CompletedOnceIffIssued ==
  \A c \in Callers :
    /\ reqs[c].completions <= 1
    /\ (reqs[c].completions = 1) <=> (reqs[c].status # "UNSET")
    /\ reqs[c].issue # "ZX_OK" => reqs[c].completions = 0
    /\ (reqs[c].issue = "ZX_OK" /\ c \notin Slots) => reqs[c].completions = 1

\* A request completed by the error path, and its caller woken by the signal.
C1_Witness ==
  \E c \in Callers :
    /\ pc[c] = "finish"
    /\ reqs[c].completions = 1
    /\ reqs[c].status = "ZX_ERR_IO"
    /\ Slots = {}

\* C2: a caller that is past sync_completion_wait has had its own request
\* completed by the interrupt thread (no signal of another request wakes it).
C2_WakesOnOwnCompletion ==
  \A c \in Callers : pc[c] \in {"finish", "reset"} => reqs[c].completions = 1

\* C3: a SdmmcRequest call that finds a slot occupied leaves the locked
\* section with ZX_ERR_SHOULD_WAIT, returns it, and none of its steps
\* changes a slot, the cursor, the flag, the completion signal, the
\* interrupt registers or another caller's request.
C3_BusyFrame(c) ==
  /\ UNCHANGED <<SlotState, req_completion_, InterruptStatus, InterruptSignalEnable,
                 InterruptStatusEnable, card_interrupt_masked_>>
  /\ \A o \in Callers \ {c} : reqs'[o] = reqs[o] /\ pc'[o] = pc[o] /\ ret'[o] = ret[o]

C3_BusyRejected ==
  [][\A c \in Callers :
       /\ (IssueStep(c) /\ Slots # {})
            => /\ pc'[c] = "failed"
               /\ reqs'[c].issue = "ZX_ERR_SHOULD_WAIT"
               /\ Written(wlog') = {}
               /\ C3_BusyFrame(c)
       /\ (pc[c] \in {"failed", "failed_return"} /\ pc'[c] # pc[c]
             /\ reqs[c].issue = "ZX_ERR_SHOULD_WAIT")
            => /\ C3_BusyFrame(c)
               /\ pc'[c] = "idle" => ret'[c] = "ZX_ERR_SHOULD_WAIT"]_vars

\* A busy rejection has returned while the other request is still outstanding.
C3_Witness ==
  \E c \in Callers :
    /\ ret[c] = "ZX_ERR_SHOULD_WAIT"
    /\ pc[c] = "idle"
    /\ \E o \in Callers \ {c} : o \in Slots /\ pc[o] = "wait"

\* C4: the two slots never hold two distinct requests, and a slot holds a
\* request only after its successful issue and before its completion.
C4_SlotInvariant ==
  /\ (cmd_req_ # nullptr /\ data_req_ # nullptr) => cmd_req_ = data_req_
  /\ \A r \in Slots : reqs[r].issue = "ZX_OK" /\ reqs[r].completions = 0

\* Only the data slot is occupied, after the command stage of a request with
\* a data phase completed.
C4_Witness ==
  /\ cmd_req_ = nullptr
  /\ data_req_ # nullptr
  /\ reqs[data_req_].issue = "ZX_OK"
  /\ reqs[data_req_].response # NoResponse

\* C5: the cursor never exceeds the block count of the request in the data
\* slot, whatever buffer-ready interrupts arrive.
C5_CursorWithinBlockCount ==
  data_req_ # nullptr => data_blockid_ <= reqs[data_req_].blockcount

\* C6: the interrupt words whose handlers complete the request in the data
\* slot before ErrorRecoveryLocked runs.
C6_CompletedBeforeRecovery ==
  \/ "transfer_complete" \in irq /\ (cmd_req_ = nullptr \/ "command_complete" \in irq)
  \/ "command_complete" \in irq /\ cmd_req_ # nullptr /\ data_done_
  \/ /\ "buffer_read_ready" \in irq
     /\ SdmmcCmdHasData(reqs[data_req_].cmd_flags)
     /\ IsTuningCmd(reqs[data_req_].cmd_idx)

C6_Recovered ==
  /\ WriteCount(wlog', "SoftwareReset") = 2
  /\ cmd_req_' = nullptr /\ data_req_' = nullptr
  /\ data_blockid_' = 0 /\ data_done_' = FALSE
  /\ InterruptSignalEnable' \cap (NormalBits \cup ErrorBits) = {}
  /\ req_completion_'
  /\ reqs'[data_req_].completions = 1

C8_UnpinFailureReturned ==
  [][\A c \in Callers :
       /\ (pc[c] = "finish" /\ pc'[c] = "reset"
             /\ reqs[c].use_dma /\ reqs[c].pmt # ZX_HANDLE_INVALID)
            => reqs'[c].pmt = ZX_HANDLE_INVALID
       /\ (ReturnStep(c) /\ pc[c] = "reset" /\ reqs[c].use_dma
             /\ reqs[c].status = "ZX_OK" /\ reqs[c].fin # "ZX_OK")
            => ret'[c] = reqs[c].fin]_vars

\* C9: for an abort-class command FinishRequest writes the reset bits
\* before it waits for them, and SdmmcRequest returns the outcome of that
\* reset.
C9_AbortResetReturned ==
  [][\A c \in Callers :
       /\ (pc[c] = "finish" /\ pc'[c] = "reset"
             /\ "SDMMC_CMD_TYPE_ABORT" \in reqs[c].cmd_flags)
            => "SoftwareReset" \in Written(wlog')
       /\ (ReturnStep(c) /\ pc[c] = "reset"
             /\ "SDMMC_CMD_TYPE_ABORT" \in reqs[c].cmd_flags)
            => ret'[c] = reqs[c].fin]_vars

\* C10: a command is issued only with command-inhibit clear, a busy-response
\* command that is not an abort only with data-inhibit clear as well; an
\* abort is issued whatever data-inhibit reads; a timed-out wait writes no
\* command and leaves both slots empty.
C10_InhibitWait ==
  [][\A c \in Callers :
       IssueStep(c)
         => LET flags == reqs[c].cmd_flags
                busy == "SDMMC_RESP_LEN_48B" \in flags
                abort == "SDMMC_CMD_TYPE_ABORT" \in flags
            IN /\ reqs'[c].issue = "ZX_OK"
                    => /\ "command_inhibit_cmd" \notin PolledBits(wlog')
                       /\ (busy /\ ~abort) => "command_inhibit_dat" \notin PolledBits(wlog')
               /\ (abort /\ PolledBits(wlog') = {"command_inhibit_dat"})
                    => reqs'[c].issue # "ZX_ERR_TIMED_OUT"
               /\ reqs'[c].issue = "ZX_ERR_TIMED_OUT"
                    => "Command" \notin Written(wlog') /\ Slots' = {}]_vars

\* A request is oversized when its pages (partial first and last page
\* included) outnumber SDMMC_PAGES_COUNT.
C11_Oversized(req) ==
  /\ SdmmcCmdHasData(req.cmd_flags) /\ req.use_dma
  /\ (req.buf_offset % 4096) + req.blockcount * req.blocksize + 4095 > 4096 * 512 + 4095

\* C11: an oversized DMA request is never issued: the locked section of
\* SdmmcRequest writes no register, pins no page, changes no slot and
\* signals nothing, its result is ZX_ERR_INVALID_ARGS whenever the slots are
\* empty and the inhibit bits waited for read clear, and SdmmcRequest
\* returns that result without a register write, a pin or a signal.
C11_OversizedRejected ==
  [][\A c \in Callers :
       /\ (IssueStep(c) /\ C11_Oversized(reqs[c]))
            => /\ pc'[c] = "failed"
               /\ Written(wlog') = {}
               /\ reqs'[c].pinned = 0 /\ reqs'[c].pmt = ZX_HANDLE_INVALID
               /\ UNCHANGED <<SlotState, req_completion_>>
               /\ (Slots = {} /\ PolledBits(wlog') \cap InhibitMask(reqs[c].cmd_flags) = {})
                    => reqs'[c].issue = "ZX_ERR_INVALID_ARGS"
       /\ (pc[c] \in {"failed", "failed_return"} /\ pc'[c] # pc[c] /\ C11_Oversized(reqs[c]))
            => /\ Written(wlog') = {}
               /\ UNCHANGED <<SlotState, req_completion_>>
               /\ pc'[c] = "failed_return"
                    => reqs'[c].pinned = 0 /\ reqs'[c].issue = reqs[c].issue
               /\ pc'[c] = "idle" => ret'[c] = reqs[c].issue]_vars

\* SdmmcRequest has returned ZX_ERR_INVALID_ARGS: slots empty, nothing
\* signalled.
C11_Witness ==
  \E c \in Callers :
    /\ ret[c] = "ZX_ERR_INVALID_ARGS"
    /\ pc[c] = "idle"
    /\ Slots = {}
    /\ ~req_completion_

\* A setter call with a value its switch does not name.
C12_Unrecognized ==
  \/ call'.op = "SdmmcSetSignalVoltage" /\ call'.arg = "SDMMC_VOLTAGE_MAX"
  \/ call'.op = "SdmmcSetBusWidth" /\ call'.arg = "SDMMC_BUS_WIDTH_MAX"
  \/ call'.op = "SdmmcSetTiming" /\ call'.arg = "SDMMC_TIMING_MAX"

\* C12: a setter called with an unrecognized enum value returns
\* ZX_ERR_INVALID_ARGS, has written no register, and every register has the
\* value it had before the call.
C12_InvalidValueWritesNothing ==
  [][(wlog' # wlog \/ call' # call \/ regs' # regs) /\ C12_Unrecognized
       => /\ call'.st = "ZX_ERR_INVALID_ARGS"
          /\ wlog' = <<>>
          /\ regs' = regs]_vars

\* The descriptor loop has been left.
LoopLeft == call.op = "BuildDmaDescriptor" /\ call.loop.st # "RUN"

\* Bytes of the transfer the loop has not put into a descriptor.
LoopBytesLeft == call.loop.it.remaining + call.loop.length

\* C13: a chain the descriptor loop ends with ZX_OK has between one and
\* kDmaDescCount entries, its end attribute on the last entry and on no
\* other, and valid and type-data on every entry; no entry written while
\* the loop runs carries the end attribute; a request with no run fails with
\* ZX_ERR_NOT_SUPPORTED, and so does one with bytes left after kDmaDescCount
\* entries.
C13_ChainWellFormed ==
  call.op = "BuildDmaDescriptor" =>
    LET descs == call.loop.descs
        n == Len(descs)
    IN /\ n <= kDmaDescCount
       /\ \A i \in 1..n :
            /\ {"valid", "type_data"} \subseteq descs[i].attr
            /\ ("end" \in descs[i].attr) <=> (call.loop.st = "ZX_OK" /\ i = n)
       /\ call.loop.st = "ZX_OK" => n >= 1
       /\ call.loop.st \in {"RUN", "ZX_OK", "ZX_ERR_NOT_SUPPORTED"}
       /\ (LoopLeft /\ ReqLen(call.arg) = 0) => call.loop.st = "ZX_ERR_NOT_SUPPORTED"
       /\ (LoopLeft /\ n = kDmaDescCount /\ LoopBytesLeft > 0)
            => call.loop.st = "ZX_ERR_NOT_SUPPORTED"

\* A chain of exactly kDmaDescCount entries was completed.
C13_Witness ==
  /\ LoopLeft
  /\ call.loop.st = "ZX_OK"
  /\ Len(call.loop.descs) = kDmaDescCount

\* A chain was refused with kDmaDescCount entries written and bytes left.
C13_CapWitness ==
  /\ LoopLeft
  /\ call.loop.st = "ZX_ERR_NOT_SUPPORTED"
  /\ Len(call.loop.descs) = kDmaDescCount
  /\ call.arg.blockcount > 0
  /\ (host.addr64 \/ call.loop.phys[1] < Limit32)

\* The bytes a descriptor stands for: a length field of 0 is the full
\* 65536 bytes (the uint16_t cast of kMaxDescriptorLength).
DescLen(desc) == IF desc.length = 0 THEN Units(Word16) ELSE desc.length

RECURSIVE SumLengths(_, _, _)
SumLengths(descs, lo, hi) ==
  IF lo > hi THEN 0
  ELSE IF lo = hi THEN DescLen(descs[lo])
  ELSE LET mid == (lo + hi) \div 2
       IN SumLengths(descs, lo, mid) + SumLengths(descs, mid + 1, hi)

\* The physical address of the k-th byte of the transfer.
PhysAt(phys, vmo_offset, k) ==
  LET pos == (vmo_offset % PageSize) + k
  IN phys[(pos \div PageSize) + 1] + (pos % PageSize)

\* Descriptor i, which starts at byte off of the transfer, covers the bytes
\* of the transfer from there on, in order: its address is the address of
\* byte off, and so on at every page the descriptor reaches and at its last
\* byte.
CoversFrom(phys, vmo_offset, desc, off) ==
  LET first == ((vmo_offset % PageSize) + off) \div PageSize
      last == ((vmo_offset % PageSize) + off + DescLen(desc) - 1) \div PageSize
      starts == { pg * PageSize - (vmo_offset % PageSize) - off : pg \in (first + 1)..last }
  IN \A j \in {0, DescLen(desc) - 1} \cup starts :
       PhysAt(phys, vmo_offset, off + j) = desc.address + j

\* C14: the descriptors of a chain the loop ends with ZX_OK, read in order,
\* are the bytes of the transfer in order over the pinned pages, nothing
\* left out and nothing twice: each descriptor starts where the one before
\* ended, its address range is the physical place of those bytes, the
\* lengths sum to blockcount * blocksize, and each is at least one unit and
\* at most kMaxDescriptorLength; while the loop runs the same holds of the
\* bytes handed out so far.
C14_ChainCoversTransfer ==
  (call.op = "BuildDmaDescriptor" /\ call.loop.st \in {"RUN", "ZX_OK"}) =>
    LET descs == call.loop.descs
        n == Len(descs)
        vmo_offset == Units(call.arg.buf_offset)
    IN /\ SumLengths(descs, 1, n) + LoopBytesLeft = ReqLen(call.arg)
       /\ call.loop.st = "ZX_OK" => LoopBytesLeft = 0
       /\ (call.loop.st = "ZX_OK" \/ n < 4) =>
            \A i \in 1..n :
              /\ DescLen(descs[i]) \in 1..kMaxDescriptorLength
              /\ CoversFrom(call.loop.phys, vmo_offset, descs[i], SumLengths(descs, 1, i - 1))

\* A chain over pages that are not all contiguous, for a transfer that
\* starts inside its first page, with the boundary quirk active.
C14_Witness ==
  /\ LoopLeft
  /\ call.loop.st = "ZX_OK"
  /\ call.arg.buf_offset = 512
  /\ "SDHCI_QUIRK_USE_DMA_BOUNDARY_ALIGNMENT" \in host.quirks
  /\ Len(call.loop.descs) > 4
  /\ \E i \in 1..(Len(call.loop.phys) - 1) :
       call.loop.phys[i + 1] # call.loop.phys[i] + PageSize

\* A descriptor's address range [address, address + length - 1] lies
\* between two consecutive multiples of the alignment.
WithinBoundary(desc, alignment) ==
  RoundDown(desc.address, alignment) = RoundDown(desc.address + DescLen(desc) - 1, alignment)

\* C15: with the boundary-alignment quirk active, a pass of the loop whose
\* run crosses a boundary writes a descriptor that ends exactly at the first
\* boundary after its start and keeps the rest of the run, which starts at
\* that boundary, for the next pass, the two lengths summing to the run's
\* length; no descriptor of the chain crosses a multiple of the alignment,
\* however many boundaries a run crosses. Without the quirk no run is cut.
C15_SplitAtBoundary ==
  [][(call.op = "BuildDmaDescriptor" /\ Len(call'.loop.descs) = Len(call.loop.descs) + 1) =>
       LET al == host.dma_boundary_alignment
           new == call'.loop.descs[Len(call'.loop.descs)]
           run == IF call.loop.length = 0
                  THEN call.loop.it.remaining - call'.loop.it.remaining
                  ELSE call.loop.length
       IN /\ DescLen(new) + call'.loop.length = run
          /\ IF "SDHCI_QUIRK_USE_DMA_BOUNDARY_ALIGNMENT" \in host.quirks
             THEN /\ WithinBoundary(new, al)
                  /\ (call'.loop.length > 0) <=>
                       (RoundDown(new.address, al) # RoundDown(new.address + run - 1, al))
                  /\ call'.loop.length > 0 =>
                       /\ new.address + DescLen(new) = RoundDown(new.address, al) + al
                       /\ call'.loop.paddr = new.address + DescLen(new)
                  /\ call.loop.length > 0 => new.address = call.loop.paddr
             ELSE call'.loop.length = 0]_vars

\* A run that crosses more than one boundary has been cut: the rest in hand
\* is longer than the alignment.
C15_Witness ==
  /\ call.op = "BuildDmaDescriptor"
  /\ "SDHCI_QUIRK_USE_DMA_BOUNDARY_ALIGNMENT" \in host.quirks
  /\ call.loop.length > host.dma_boundary_alignment
  /\ call.loop.descs # <<>>

\* ceil(base_clock / (2 * target_rate)) over the integers.
CeilHalfRatio(base_clock, target_rate) ==
  ((base_clock - 1) \div (2 * target_rate)) + 1

\* C16: GetClockDividerValue returns 0 when the target is at least the base
\* clock, and otherwise the smaller of ceil(base_clock / (2 * target)) and
\* kMaxFrequencySelect, also when that quotient does not fit in 16 bits;
\* 200 MHz and 25 MHz give 4; and a result below the cap divides the base
\* clock to a rate that does not exceed the target.
C16_CappedCeiling ==
  (call.op = "GetClockDividerValue" /\ call.st = "DONE") =>
    LET base_clock == host.base_clock
        target_rate == call.arg
    IN /\ target_rate >= base_clock => call.result = 0
       /\ target_rate < base_clock =>
            call.result = Min(CeilHalfRatio(base_clock, target_rate), kMaxFrequencySelect)
       /\ (base_clock = 200000000 /\ target_rate = 25000000) => call.result = 4
       /\ (target_rate < base_clock /\ call.result < kMaxFrequencySelect) =>
            base_clock <= 2 * call.result * target_rate

TuningRequestStep == tune'.issued = tune.issued + 1

\* C17: a call of SdmmcPerformTuning issues at most kMaxTuningCount
\* requests and returns; a request is issued only while the latest read of
\* ctrl2 showed execute_tuning set (none after a read showed it cleared);
\* and a call in which every read showed execute_tuning set and every
\* request returned ZX_OK has issued exactly kMaxTuningCount requests and
\* returns ZX_ERR_IO.
C17_TuningBounded ==
  /\ [](tune.issued <= kMaxTuningCount /\ tune.count <= kMaxTuningCount)
  /\ [][TuningRequestStep =>
          (tune.execute_tuning = 1 /\ tune.all_set /\ tune.issued < kMaxTuningCount)]_vars
  /\ []((tune.pc = "done" /\ tune.all_set /\ tune.req_st = "ZX_OK") =>
          (tune.issued = kMaxTuningCount /\ tune.st = "ZX_ERR_IO"))
  /\ []((tune.pc = "done" /\ tune.all_set) => tune.st # "ZX_OK")
  /\ (tune.pc \in {"loop", "read"}) ~> (tune.pc = "done")

\* execute_tuning never cleared: the cap's worth of requests, ZX_ERR_IO.
C17_Witness ==
  /\ tune.pc = "done"
  /\ tune.all_set
  /\ tune.issued = kMaxTuningCount
  /\ tune.st = "ZX_ERR_IO"

\* C18: SdmmcPerformTuning returns ZX_OK exactly when every request it
\* issued returned ZX_OK and the last read of HostControl2 showed
\* execute_tuning cleared and use_tuned_clock set; a request that fails is
\* the last one issued and its status is the return value.
C18_TuningResult ==
  [][/\ tune'.pc = "done" =>
          /\ (tune'.st = "ZX_OK") <=>
               /\ tune'.req_st = "ZX_OK"
               /\ regs.HostControl2.execute_tuning = 0
               /\ regs.HostControl2.use_tuned_clock = 1
               /\ tune.pc = "loop"
          /\ tune'.req_st # "ZX_OK" => tune'.st = tune'.req_st
          /\ tune'.st \in {"ZX_OK", "ZX_ERR_IO"} \cup RequestNewStatuses
     /\ (TuningRequestStep /\ tune'.req_st # "ZX_OK") =>
          (tune'.pc = "done" /\ tune'.st = tune'.req_st)
     /\ (tune.pc = "done" /\ tune.req_st # "ZX_OK" /\ tune'.pc = "done") =>
          tune'.issued = tune.issued]_vars

\* Tuning succeeded after more than one request.
C18_Witness ==
  /\ tune.pc = "done"
  /\ tune.st = "ZX_OK"
  /\ tune.issued > 1

\* A failing request after successful ones ended the call.
C18_FailWitness ==
  /\ tune.pc = "done"
  /\ tune.st = "ZX_ERR_TIMED_OUT"
  /\ tune.issued > 1

C20_Errors ==
  {"ZX_ERR_TIMED_OUT", "ZX_ERR_NOT_SUPPORTED", "ZX_ERR_INVALID_ARGS", "ZX_ERR_NO_MEMORY",
   "ZX_ERR_OUT_OF_RANGE", "ZX_ERR_BAD_HANDLE", "ZX_ERR_IO"}

\* C20: when a SdmmcRequest call returns one of these errors and no other
\* call is in progress, both slots are empty and req_completion_ is not
\* signalled, and the next call, made while no other call is in progress,
\* is not rejected with ZX_ERR_SHOULD_WAIT.
C20_UsableAfterError ==
  [][\A c \in Callers :
       /\ (ReturnStep(c) /\ ret'[c] \in C20_Errors /\ \A o \in Callers \ {c} : pc[o] = "idle")
            => (Slots' = {} /\ ~req_completion_')
       /\ (IssueStep(c) /\ ret[c] \in C20_Errors /\ \A o \in Callers \ {c} : pc[o] = "idle")
            => reqs'[c].issue # "ZX_ERR_SHOULD_WAIT"]_vars

\* C21: once irq_ is destroyed the interrupt thread leaves its loop from
\* WaitForInterrupt without touching the slots, the requests or
\* req_completion_; after that nothing signals req_completion_, no request is
\* completed, and a caller blocked in sync_completion_wait on an unsignalled
\* req_completion_ stays blocked.
C21_BlockedCallerNeverReturns ==
  [][/\ (irq_pc = "wait" /\ irq_pc' = "exited")
          => (Destroyed /\ UNCHANGED <<SlotState, reqs, req_completion_, InterruptStatus>>)
     /\ (Destroyed /\ irq_pc = "wait") => irq_pc' \in {"wait", "exited"}
     /\ irq_pc = "exited"
          => /\ irq_pc' = "exited"
             /\ req_completion_' => req_completion_
             /\ \A c \in Callers :
                  /\ reqs'[c].completions <= reqs[c].completions
                  /\ (pc[c] = "wait" /\ ~req_completion_) => (pc'[c] = "wait" /\ ret'[c] = ret[c])]_vars

\* DdkUnbind has replied, the interrupt thread is gone, and the caller is
\* still blocked with its request in the slots and an interrupt pending.
C21_Witness ==
  /\ call.op = "DdkUnbind"
  /\ call.st = "replied"
  /\ irq_pc = "exited"
  /\ pc[1] = "wait"
  /\ cmd_req_ = 1
  /\ ~req_completion_
  /\ "command_complete" \in InterruptStatus

\* The low 24 bits of a register word, and the top 24 bits of a stored word.
Low24(w) == w[2] * 65536 + w[3] * 256 + w[4]

High24(w) == w[1] * 65536 + w[2] * 256 + w[3]

\* x = (hi << 8) | (lo >> 24) in 32-bit arithmetic: the top 24 bits of x are
\* the low 24 bits of hi, its low byte is the top byte of lo.
IsShifted(x, hi, lo) == High24(x) = Low24(hi) /\ x[4] = lo[1]

\* C22: for a 136-bit response, with raw words R0..R3 (Response[1..4]) and
\* stored words response[0..3] (call.result[1..4]): under the preserve-order
\* quirk response[0] = R0 << 8 and response[i] = (Ri << 8) | (R(i-1) >> 24);
\* under the strip-CRC quirk (which the code tests first, so also when both
\* are set) the same words in reverse order; with neither quirk
\* response[i] = Ri.
C22_Response136 ==
  (call.op = "ReadResponse" /\ call.st = "DONE" /\ "SDMMC_RESP_LEN_136" \in call.arg) =>
    LET R == Response
        response == call.result
    IN IF "SDHCI_QUIRK_STRIP_RESPONSE_CRC" \in host.quirks
       THEN /\ IsShifted(response[4], R[1], ZeroWord)
            /\ \A i \in 1..3 : IsShifted(response[4 - i], R[i + 1], R[i])
       ELSE IF "SDHCI_QUIRK_STRIP_RESPONSE_CRC_PRESERVE_ORDER" \in host.quirks
       THEN /\ IsShifted(response[1], R[1], ZeroWord)
            /\ \A i \in 1..3 : IsShifted(response[i + 1], R[i + 1], R[i])
       ELSE response = R

\* A 136-bit response stored under the preserve-order quirk alone, with a
\* byte carried from R0 into response[1] and the top byte of R3 shifted out.
C22_Witness ==
  /\ call.op = "ReadResponse"
  /\ call.st = "DONE"
  /\ "SDMMC_RESP_LEN_136" \in call.arg
  /\ host.quirks = {"SDHCI_QUIRK_STRIP_RESPONSE_CRC_PRESERVE_ORDER"}
  /\ Response[1] = <<128, 0, 0, 1>>
  /\ Response[4] = <<18, 52, 86, 120>>
  /\ call.result[2][4] = 128

\* The registers a step wrote, in the order of the writes.
WriteOrder(log) == SelectSeq([i \in 1..Len(log) |-> log[i][1]], LAMBDA reg : reg # "PresentState")

\* The last n elements of a sequence.
Tail_n(seq, n) == SubSeq(seq, Len(seq) - n + 1, Len(seq))

IssueWrites ==
  <<"BlockSize", "BlockCount", "Argument", "InterruptStatus",
    "InterruptSignalEnable", "InterruptStatusEnable", "TransferMode", "Command">>

\* C23: a successful StartRequestLocked ends with the register writes block
\* size, block count, argument, the interrupt status clear, the two interrupt
\* enables, transfer mode and command, in this order, each of them written
\* once; a failing one writes neither transfer mode nor command.
C23_WriteOrder ==
  [][\A c \in Callers :
       (IssueStep(c) /\ reqs'[c].issue # "ZX_ERR_SHOULD_WAIT") =>
         LET order == WriteOrder(wlog')
         IN IF reqs'[c].issue = "ZX_OK"
            THEN /\ Len(order) >= Len(IssueWrites)
                 /\ Tail_n(order, Len(IssueWrites)) = IssueWrites
                 /\ \A i \in 1..Len(IssueWrites) : WriteCount(wlog', IssueWrites[i]) = 1
            ELSE /\ "TransferMode" \notin Written(wlog')
                 /\ "Command" \notin Written(wlog')]_vars

\* A DMA read was started: the descriptor address was written before the
\* eight writes of the issue, command last.
C23_Witness ==
  /\ pc[1] = "wait"
  /\ reqs[1].issue = "ZX_OK"
  /\ reqs[1].use_dma
  /\ cmd_req_ = 1
  /\ Len(WriteOrder(wlog)) > Len(IssueWrites)
  /\ wlog[Len(wlog)][1] = "Command"

\* A request whose descriptor chain could not be built: nothing was started.
C23_FailWitness ==
  /\ pc[1] = "failed"
  /\ reqs[1].issue \notin {"ZX_OK", "ZX_ERR_SHOULD_WAIT", "ZX_ERR_TIMED_OUT"}
  /\ reqs[1].use_dma
  /\ cmd_req_ = nullptr

\* C24: after a successful StartRequestLocked(req) the command slot holds
\* req, the data slot holds req if req has a data phase or a busy response
\* and is empty otherwise, the block cursor is 0 and the data-finished-early
\* flag is false.
C24_SlotsAfterIssue ==
  [][\A c \in Callers :
       (IssueStep(c) /\ reqs'[c].issue = "ZX_OK") =>
         /\ cmd_req_' = c
         /\ data_req_' = IF SdmmcCmdHasData(reqs[c].cmd_flags) \/ SdmmcCmdRspBusy(reqs[c].cmd_flags)
                         THEN c ELSE nullptr
         /\ data_blockid_' = 0
         /\ data_done_' = FALSE]_vars

\* A busy-response command without data was started: it is in both slots.
C24_Witness ==
  /\ pc[1] = "wait"
  /\ reqs[1].issue = "ZX_OK"
  /\ ~SdmmcCmdHasData(reqs[1].cmd_flags)
  /\ SdmmcCmdRspBusy(reqs[1].cmd_flags)
  /\ cmd_req_ = 1
  /\ data_req_ = 1
  /\ wlog # <<>>
  /\ wlog[Len(wlog)][1] = "Command"

\* A command without data and without busy response: the data slot is empty.
C24_NoDataWitness ==
  /\ pc[1] = "wait"
  /\ reqs[1].issue = "ZX_OK"
  /\ cmd_req_ = 1
  /\ data_req_ = nullptr
  /\ wlog # <<>>
  /\ wlog[Len(wlog)][1] = "Command"

\* What the callers can see of the requests' completion.
Completions == [c \in Callers |-> <<reqs[c].status, reqs[c].completions>>]

\* C25: when command-complete is dispatched with a command pending, the
\* request is completed with ZX_OK in that dispatch if the data slot is empty
\* or the data-finished-early flag is set; otherwise (shown for an interrupt
\* word that carries command-complete alone) only the command slot is
\* cleared: data slot, cursor and flag are unchanged, no status is stored and
\* nothing is signalled.
C25_CommandComplete ==
  [][(DispatchStep /\ "command_complete" \in irq /\ cmd_req_ # nullptr) =>
       IF data_req_ = nullptr \/ data_done_
       THEN /\ reqs'[cmd_req_].status = "ZX_OK"
            /\ reqs'[cmd_req_].completions = reqs[cmd_req_].completions + 1
            /\ req_completion_'
            /\ cmd_req_' = nullptr /\ data_req_' = nullptr
            /\ data_blockid_' = 0 /\ data_done_' = FALSE
       ELSE irq = {"command_complete"} =>
              /\ cmd_req_' = nullptr
              /\ UNCHANGED <<data_req_, data_blockid_, data_done_, req_completion_, Completions>>]_vars

\* Command-complete came before the end of the data stage of a transfer in
\* progress: the command slot is empty, the data slot occupied, the caller
\* still waiting.
C25_Witness ==
  /\ irq_pc = "wait"
  /\ cmd_req_ = nullptr
  /\ data_req_ = 1
  /\ data_blockid_ = 1
  /\ ~data_done_
  /\ ~req_completion_
  /\ pc[1] = "wait"
  /\ reqs[1].completions = 0

\* Command-complete after an early transfer-complete finished the request.
C25_EarlyDataWitness ==
  /\ irq_pc = "wait"
  /\ cmd_req_ = nullptr
  /\ data_req_ = nullptr
  /\ req_completion_
  /\ pc[1] = "wait"
  /\ reqs[1].status = "ZX_OK"
  /\ SdmmcCmdHasData(reqs[1].cmd_flags)
  /\ wlog # <<>>
  /\ "transfer_complete" \notin InterruptStatusEnable
  /\ reqs[1].response # NoResponse

\* The dispatch step completes request r with ZX_OK, once.
CompletesWithOk(r) ==
  /\ reqs'[r].status = "ZX_OK"
  /\ reqs'[r].completions = reqs[r].completions + 1
  /\ req_completion_'
  /\ cmd_req_' = nullptr
  /\ data_req_' = nullptr

\* C26: when transfer-complete is dispatched with the data slot occupied:
\* with the command slot still occupied (shown for a word that carries
\* transfer-complete alone) the data-finished-early flag is set and nothing
\* is completed or signalled, and while the flag is set the request is
\* completed with ZX_OK only by a dispatch of command-complete (a tuning
\* command is also completed by buffer-read-ready, see C28); with the
\* command slot empty, or emptied by a command-complete of the same word, the
\* request is completed with ZX_OK in that dispatch. A request in a slot has
\* not been completed before, so the second of the two events, in either
\* order or in one word, completes the request exactly once.
C26_TransferComplete ==
  /\ [](\A c \in Callers : (cmd_req_ = c \/ data_req_ = c) => reqs[c].completions = 0)
  /\ [][(DispatchStep /\ data_req_ # nullptr) =>
          /\ (irq = {"transfer_complete"} /\ cmd_req_ # nullptr) =>
                /\ data_done_'
                /\ UNCHANGED <<cmd_req_, data_req_, data_blockid_, req_completion_, Completions>>
          /\ ("transfer_complete" \in irq /\ (cmd_req_ = nullptr \/ "command_complete" \in irq)) =>
                CompletesWithOk(data_req_)
          /\ (data_done_ /\ "command_complete" \in irq) => CompletesWithOk(data_req_)]_vars
  /\ [][\A c \in Callers :
          (data_done_ /\ data_req_ = c /\ reqs'[c].completions # reqs[c].completions
             /\ reqs'[c].status = "ZX_OK" /\ ~IsTuningCmd(reqs[c].cmd_idx))
            => (DispatchStep /\ "command_complete" \in irq)]_vars

\* Transfer-complete came before command-complete: the flag is set, both
\* slots still hold the request, the caller is still waiting.
C26_Witness ==
  /\ irq_pc = "wait"
  /\ data_done_
  /\ cmd_req_ = 1
  /\ data_req_ = 1
  /\ SdmmcCmdHasData(reqs[1].cmd_flags)
  /\ reqs[1].completions = 0
  /\ ~req_completion_
  /\ pc[1] = "wait"

\* A step that completes the request of caller c.
CompletionStep(c) == reqs'[c].completions > reqs[c].completions

\* What CompleteRequestLocked leaves: both slots empty, cursor 0, flag false,
\* of the interrupt enables at most the card interrupt bits, a status stored
\* in the request and the completion signalled.
C27_LeavesIdle ==
  [][\A c \in Callers :
       CompletionStep(c) =>
         /\ cmd_req_' = nullptr /\ data_req_' = nullptr
         /\ data_blockid_' = 0 /\ data_done_' = FALSE
         /\ InterruptSignalEnable' \subseteq CardBit
         /\ InterruptStatusEnable' \subseteq CardBit
         /\ reqs'[c].status \in {"ZX_OK", "ZX_ERR_IO"}
         /\ req_completion_']_vars

\* C27: completing a request leaves both slots empty, the cursor 0, the flag
\* false and the interrupt enables narrowed to the card interrupt bits, and
\* stores the status with the signal, so that a caller whose wait returns
\* finds its request completed, with the status it then returns.
C27_CompletionFinal ==
  /\ C27_LeavesIdle
  /\ [][\A c \in Callers :
          (pc[c] = "wait" /\ pc'[c] = "finish") =>
             /\ reqs[c].completions = 1
             /\ reqs[c].status \in {"ZX_OK", "ZX_ERR_IO"}]_vars
  /\ [][\A c \in Callers :
          (pc[c] \in {"finish", "reset"} /\ reqs[c].completions = 1) =>
             reqs'[c].status = reqs[c].status \/ pc'[c] = "idle"]_vars

C29_SpuriousBufferReady ==
  [][(/\ DispatchStep
      /\ irq # {}
      /\ irq \subseteq {"buffer_read_ready", "buffer_write_ready"}
      /\ (data_req_ = nullptr \/ ~SdmmcCmdHasData(reqs[data_req_].cmd_flags))) =>
        /\ UNCHANGED <<SlotState, Completions, req_completion_>>
        /\ "BufferData" \notin Written(wlog')]_vars

\* A busy-response command without data is still in both slots after a
\* dispatch that wrote no register and moved no data.
C29_Witness ==
  /\ irq_pc = "wait"
  /\ wlog = <<>>
  /\ pc[1] = "wait"
  /\ cmd_req_ = 1
  /\ data_req_ = 1
  /\ ~SdmmcCmdHasData(reqs[1].cmd_flags)
  /\ data_blockid_ = 0
  /\ ~data_done_
  /\ ~req_completion_

\* C30: a dispatch of the card interrupt clears the card bit of
\* InterruptStatusEnable, sets card_interrupt_masked_ and invokes the
\* callback if one is registered; while card_interrupt_masked_ is set the
\* card bit of InterruptStatusEnable is 0, and every step other than
\* SdmmcAckInBandInterrupt - request issue and completion included - keeps
\* both; SdmmcAckInBandInterrupt sets the bit and clears the flag.
C30_CardInterruptMasked ==
  /\ [](card_interrupt_masked_ => "card_interrupt" \notin InterruptStatusEnable)
  /\ [][(DispatchStep /\ "card_interrupt" \in irq) =>
          /\ "card_interrupt" \notin InterruptStatusEnable'
          /\ card_interrupt_masked_'
          /\ call'.st = IF interrupt_cb_ THEN "called" ELSE call.st]_vars
  /\ [][(card_interrupt_masked_ /\ ~SdmmcAckInBandInterrupt) =>
          (card_interrupt_masked_' /\ "card_interrupt" \notin InterruptStatusEnable')]_vars
  /\ [][SdmmcAckInBandInterrupt =>
          (~card_interrupt_masked_' /\ "card_interrupt" \in InterruptStatusEnable')]_vars

\* After a card interrupt a request was issued and is outstanding with the
\* other interrupts enabled, the card interrupt still masked and the
\* callback invoked but not yet acknowledged.
C30_Witness ==
  /\ card_interrupt_masked_
  /\ interrupt_cb_
  /\ call.st = "called"
  /\ cmd_req_ = 1
  /\ pc[1] = "wait"
  /\ "command_complete" \in InterruptStatusEnable
  /\ "card_interrupt" \notin InterruptStatusEnable
  /\ "card_interrupt" \in InterruptSignalEnable

\* The card interrupt was acknowledged while a request was outstanding.
C30_AckWitness ==
  /\ ~card_interrupt_masked_
  /\ call.arg = "SdmmcAckInBandInterrupt"
  /\ cmd_req_ = 1
  /\ "card_interrupt" \in InterruptStatusEnable
  /\ "card_interrupt" \in InterruptStatus

\* A card interrupt was taken with no callback registered; the callback was
\* invoked when the client registered, the card bit left masked.
C30_LateRegisterWitness ==
  /\ card_interrupt_masked_
  /\ interrupt_cb_
  /\ call.arg = "SdmmcRegisterInBandInterrupt"
  /\ call.st = "called"
  /\ "card_interrupt" \notin InterruptStatusEnable
  /\ "card_interrupt" \in InterruptSignalEnable

\* C31: a card interrupt dispatched while no callback is registered leaves
\* card_interrupt_masked_ set; a SdmmcRegisterInBandInterrupt that finds the
\* flag set invokes the new callback within the call and leaves the card bit
\* of InterruptStatusEnable 0 and the flag set; with the callback registered,
\* flag and bit then stay so through every step but SdmmcAckInBandInterrupt.
C31_EarlyCardInterruptKept ==
  /\ [][(DispatchStep /\ "card_interrupt" \in irq /\ ~interrupt_cb_) =>
          (card_interrupt_masked_' /\ ~interrupt_cb_' /\ call'.st = call.st)]_vars
  /\ [][(~interrupt_cb_ /\ interrupt_cb_') =>
          /\ SdmmcRegisterInBandInterrupt
          /\ card_interrupt_masked_ =>
               /\ call'.st = "called"
               /\ card_interrupt_masked_'
               /\ "card_interrupt" \notin InterruptStatusEnable'
          /\ ~card_interrupt_masked_ => call'.st = call.st]_vars
  /\ [][(interrupt_cb_ /\ card_interrupt_masked_ /\ call.st = "called"
           /\ ~SdmmcAckInBandInterrupt) =>
          /\ card_interrupt_masked_'
          /\ call'.st = "called"
          /\ "card_interrupt" \notin InterruptStatusEnable']_vars

\* The state SdmmcRegisterInBandInterrupt leaves when a card interrupt was
\* taken before: callback invoked, card interrupt signalled but not enabled.
C31_Witness ==
  /\ irq_pc = "wait"
  /\ wlog = <<<<"InterruptSignalEnable", {}>>, <<"InterruptStatusEnable", {}>>>>
  /\ call = [op |-> "InBandInterrupt", arg |-> "SdmmcRegisterInBandInterrupt", st |-> "called"]
  /\ interrupt_cb_
  /\ card_interrupt_masked_
  /\ InterruptStatusEnable \cap CardBit = {}
  /\ InterruptSignalEnable \cap CardBit = CardBit

\* The positions in a log of the writes of ClockControl, and of the reads
\* of ClockControl that showed internal_clock_stable set.
ClockWrites(log) == { i \in 1..Len(log) : log[i][1] = "ClockControl" }

StableSeen(log) ==
  { i \in 1..Len(log) : log[i][1] = "ClockControl.internal_clock_stable"
                          /\ log[i][2] = {"internal_clock_stable"} }

\* C32: an SdmmcSetBusFreq whose inhibit wait ends with an inhibit bit set
\* returns ZX_ERR_TIMED_OUT and writes nothing. Otherwise, for a non-zero
\* frequency: the first write of ClockControl has the SD clock disabled and
\* the old divider, the second carries the new divider with the SD clock
\* still disabled; a write with the SD clock enabled comes only after a read
\* that follows the divider write and shows internal_clock_stable set; when
\* that wait times out the call returns ZX_ERR_TIMED_OUT and the SD clock
\* enable bit is left 0.
C32_BusFreqSequence ==
  [][LET log == wlog'
         w == ClockWrites(log)
         divider == CHOOSE i \in w : Cardinality({ j \in w : j < i }) = 1
         first == CHOOSE i \in w : \A j \in w : i <= j
         enables == { i \in w : log[i][2].sd_clock_enable = 1 }
     IN call'.op = "SdmmcSetBusFreq" =>
          IF PolledBits(log) \cap InhibitBits # {}
          THEN call'.st = "ZX_ERR_TIMED_OUT" /\ w = {} /\ regs' = regs
          ELSE call'.arg # 0 =>
                 /\ Cardinality(w) >= 2
                 /\ log[first][2].sd_clock_enable = 0
                 /\ log[first][2].frequency_select = regs.ClockControl.frequency_select
                 /\ log[divider][2].sd_clock_enable = 0
                 /\ log[divider][2].frequency_select =
                      GetClockDividerValue(host.base_clock, call'.arg)
                 /\ \A i \in enables : \E k \in StableSeen(log) : divider < k /\ k < i
                 /\ IF StableSeen(log) = {}
                    THEN /\ call'.st = "ZX_ERR_TIMED_OUT"
                         /\ enables = {}
                         /\ regs'.ClockControl.sd_clock_enable = 0
                    ELSE /\ call'.st = "ZX_OK"
                         /\ Cardinality(enables) = 1
                         /\ regs'.ClockControl.sd_clock_enable = 1]_vars

\* The internal clock did not become stable after a divider change on a
\* running SD clock: the call timed out with the SD clock off.
C32_Witness ==
  /\ call.op = "SdmmcSetBusFreq"
  /\ call.arg = 25000000
  /\ call.st = "ZX_ERR_TIMED_OUT"
  /\ Cardinality(ClockWrites(wlog)) = 2
  /\ regs.ClockControl.sd_clock_enable = 0
  /\ regs.ClockControl.internal_clock_enable = 1
  /\ regs.ClockControl.frequency_select = 2

\* The inhibit wait timed out: nothing was written.
C32_InhibitWitness ==
  /\ call.op = "SdmmcSetBusFreq"
  /\ call.arg # 0
  /\ call.st = "ZX_ERR_TIMED_OUT"
  /\ ClockWrites(wlog) = {}
  /\ regs.ClockControl.sd_clock_enable = 1

\* A step of the setters' specification that is a call of SdmmcSetSignalVoltage.
VoltageStep ==
  /\ wlog' # wlog \/ call' # call \/ regs' # regs
  /\ call'.op = "SdmmcSetSignalVoltage"

\* C33: SdmmcSetSignalVoltage(3.3V) without SDMMC_HOST_CAP_VOLTAGE_330
\* returns ZX_ERR_NOT_SUPPORTED and writes no register. For 1.8V, and for
\* 3.3V with the capability, HostControl2 is written first; when the re-read
\* shows the 1.8V signalling bit as requested the call returns ZX_OK with
\* PowerControl unwritten and unchanged, otherwise it writes PowerControl
\* with the bus power bit 0 and returns ZX_ERR_INTERNAL.
C33_SignalVoltage ==
  [][VoltageStep =>
       LET voltage == call'.arg
           v == IF voltage = "SDMMC_VOLTAGE_V180" THEN 1 ELSE 0
           log == [i \in 1..Len(wlog') |-> wlog'[i][1]]
       IN /\ (voltage = "SDMMC_VOLTAGE_V330" /\ "SDMMC_HOST_CAP_VOLTAGE_330" \notin host.caps)
               => /\ call'.st = "ZX_ERR_NOT_SUPPORTED"
                  /\ log = <<>>
                  /\ regs' = regs
          /\ (\/ voltage = "SDMMC_VOLTAGE_V180"
              \/ voltage = "SDMMC_VOLTAGE_V330" /\ "SDMMC_HOST_CAP_VOLTAGE_330" \in host.caps)
               => IF regs'.HostControl2.voltage_1v8_signalling_enable = v
                  THEN /\ call'.st = "ZX_OK"
                       /\ log = <<"HostControl2">>
                       /\ regs'.PowerControl = regs.PowerControl
                  ELSE /\ call'.st = "ZX_ERR_INTERNAL"
                       /\ log = <<"HostControl2", "PowerControl">>
                       /\ regs'.PowerControl.sd_bus_power_vdd1 = 0]_vars

\* The switch to 1.8V did not latch: the bus power was cut.
C33_Witness ==
  /\ call = [op |-> "SdmmcSetSignalVoltage", arg |-> "SDMMC_VOLTAGE_V180", st |-> "ZX_ERR_INTERNAL"]
  /\ regs.HostControl2.voltage_1v8_signalling_enable = 0
  /\ regs.PowerControl.sd_bus_power_vdd1 = 0
  /\ Len(wlog) = 2

\* 3.3V was refused on a host without the capability, the bus still powered.
C33_UnsupportedWitness ==
  /\ call = [op |-> "SdmmcSetSignalVoltage", arg |-> "SDMMC_VOLTAGE_V330", st |-> "ZX_ERR_NOT_SUPPORTED"]
  /\ wlog = <<>>
  /\ regs.PowerControl.sd_bus_power_vdd1 = 1

\* C34: on a host without ADMA2 a request with use_dma set fails in the
\* locked section with ZX_ERR_NOT_SUPPORTED before any register access: no
\* register is read or written, no page is pinned, the slots stay empty and
\* nothing is signalled; SdmmcRequest then returns that status through
\* FinishRequest, without a write, an unpin or a wait on req_completion_.
C34_DmaUnsupported ==
  [][\A c \in Callers :
       /\ (IssueStep(c) /\ reqs[c].use_dma /\ ~host.adma2) =>
            /\ reqs'[c].issue = "ZX_ERR_NOT_SUPPORTED"
            /\ pc'[c] = "failed"
            /\ wlog' = <<>>
            /\ reqs'[c].pinned = 0 /\ reqs'[c].pmt = ZX_HANDLE_INVALID
            /\ Slots' = {}
            /\ UNCHANGED <<SlotState, req_completion_, InterruptStatus,
                           InterruptSignalEnable, InterruptStatusEnable>>
       /\ (reqs[c].use_dma /\ ~host.adma2 /\ pc[c] \in {"failed", "failed_return"}
             /\ pc'[c] # pc[c]) =>
            /\ wlog' = <<>>
            /\ Slots' = {}
            /\ UNCHANGED <<SlotState, req_completion_>>
            /\ pc'[c] = "failed_return" =>
                 reqs'[c].pinned = 0 /\ reqs'[c].issue = "ZX_ERR_NOT_SUPPORTED"
            /\ pc'[c] = "idle" => ret'[c] = "ZX_ERR_NOT_SUPPORTED"
       /\ (reqs'[c].use_dma /\ ~host.adma2) => pc'[c] \notin {"wait", "finish", "reset"}]_vars

\* SdmmcRequest has returned ZX_ERR_NOT_SUPPORTED on a host without ADMA2.
C34_Witness ==
  /\ ~host.adma2
  /\ pc[1] = "idle"
  /\ ret[1] = "ZX_ERR_NOT_SUPPORTED"
  /\ Slots = {}
  /\ ~req_completion_
  /\ wlog = <<>>


\* ---- C35
\* The addresses at which a run of the request's pinned pages is certain to
\* start: the first byte of the buffer, every page that does not follow its
\* predecessor physically, and, with the boundary quirk, every page that
\* lies on a boundary (where a longer run is split).
C35_RunStarts ==
  LET phys == call.phys
      quirk == "SDHCI_QUIRK_USE_DMA_BOUNDARY_ALIGNMENT" \in host.quirks
  IN IF ReqLen(call.arg) = 0 \/ phys = <<>> THEN {}
     ELSE { phys[1] + (Units(call.arg.buf_offset) % PageSize) }
            \cup { phys[i] : i \in { k \in 2..Len(phys) : phys[k] # phys[k - 1] + PageSize } }
            \cup { phys[i] : i \in { k \in 2..Len(phys) :
                                       quirk /\ phys[k] % host.dma_boundary_alignment = 0 } }

\* The pages are pinned and a run lies above what a 32-bit descriptor can
\* address.
C35_TooWide ==
  /\ ~host.addr64
  /\ reqs[1].pmt # ZX_HANDLE_INVALID
  /\ \E a \in C35_RunStarts : a >= Limit32

\* C35: with 32-bit descriptors, once the pages are pinned, StartRequestLocked
\* returns ZX_ERR_NOT_SUPPORTED whenever a run (the second half of a boundary
\* split included) starts at or above 2^32; it then has written neither
\* AdmaSystemAddress nor Command and both slots are empty; the descriptor
\* table of such a controller lies below 2^32; and every address stored in a
\* 32-bit descriptor is the address of a byte of one of the pinned pages,
\* never that address modulo 2^32.
C35_WideAddressRejected ==
  (call.op = "StartRequestLocked" /\ call.st # "NONE") =>
    /\ C35_TooWide =>
         /\ call.st = "ZX_ERR_NOT_SUPPORTED"
         /\ Written(wlog) \cap {"AdmaSystemAddress0", "AdmaSystemAddress1", "Command"} = {}
         /\ cmd_req_ = nullptr
         /\ data_req_ = nullptr
    /\ ~host.addr64 => host.iobuf_phys < Limit32
    /\ ~host.addr64 =>
         \A k \in 1..Len(call.descs) :
           /\ call.descs[k].address < Limit32
           /\ \E i \in 1..Len(call.phys) :
                /\ call.phys[i] <= call.descs[k].address
                /\ call.descs[k].address < call.phys[i] + PageSize

\* A run that starts below 2^32 is split at the boundary 2^32: its first
\* half is stored, its second half is refused.
C35_Witness ==
  /\ call.op = "StartRequestLocked"
  /\ call.st = "ZX_ERR_NOT_SUPPORTED"
  /\ ~host.addr64
  /\ host.iobuf_phys < Limit32
  /\ "SDHCI_QUIRK_USE_DMA_BOUNDARY_ALIGNMENT" \in host.quirks
  /\ call.phys # <<>>
  /\ call.phys[1] < Limit32
  /\ \E i \in 2..Len(call.phys) : call.phys[i] = Limit32 /\ call.phys[i - 1] + PageSize = Limit32
  /\ Len(call.descs) >= 1
  /\ reqs[1].pmt # ZX_HANDLE_INVALID

\* ---- C36
\* The threads inside a section that spans more than one step: a caller
\* between taking mtx_ in SdmmcRequest and leaving the locked section, the
\* interrupt thread between taking mtx_ and the end of its dispatch.
C36_Inside ==
  { CallerId(c) : c \in { k \in Callers : pc[k] = "locked" } }
    \cup (IF irq_pc = "dispatch" THEN {IrqThreadId} ELSE {})

\* What the locked sections read and write.
C36_Protected ==
  <<regs, cmd_req_, data_req_, data_blockid_, data_done_, interrupt_cb_,
    card_interrupt_masked_, InterruptSignalEnable, InterruptStatusEnable>>

\* A step of a setter, of SdmmcRegisterInBandInterrupt or of
\* SdmmcAckInBandInterrupt: the whole locked section at once.
C36_SetterStep ==
  \/ MutexSetSignalVoltage
  \/ MutexSetBusWidth
  \/ MutexSetTiming
  \/ MutexSetBusFreq
  \/ SdmmcRegisterInBandInterrupt
  \/ SdmmcAckInBandInterrupt

\* C36: at most one thread is inside a locked section, and it is the owner of
\* mtx_; a setter, register or acknowledge section runs only while no thread
\* is inside; and while a thread stays inside, no other thread's step changes
\* the registers, the slots, the cursor, the flags or the interrupt enables.
C36_MutualExclusion ==
  /\ [](/\ Cardinality(C36_Inside) <= 1
        /\ (mtx_ = NoOwner) <=> (C36_Inside = {})
        /\ C36_Inside # {} => C36_Inside = {mtx_})
  /\ [][C36_SetterStep => C36_Inside = {} /\ C36_Inside' = {}]_vars
  /\ [][(C36_Inside # {} /\ C36_Inside' = C36_Inside) => UNCHANGED C36_Protected]_vars

\* A caller is inside the issue section while the interrupt thread and the
\* other caller stand before theirs, the setters and the client of the
\* in-band interrupt having run before.
C36_Witness ==
  /\ pc[1] = "locked"
  /\ mtx_ = CallerId(1)
  /\ irq_pc = "lock"
  /\ pc[2] = "idle"
  /\ cmd_req_ # 2
  /\ interrupt_cb_
  /\ regs.HostControl2.voltage_1v8_signalling_enable = 1

\* ---- C37
\* The request a dispatch finds pending: the one in the command slot, or
\* else the one in the data slot.
C37_Pending == IF cmd_req_ # nullptr THEN cmd_req_ ELSE data_req_

\* C37: a dispatch of an interrupt word with the error bit set, while a
\* request is pending, leaves that request with the status ZX_ERR_IO,
\* whatever else the word carries.
C37_ErrorWins ==
  [][(DispatchStep /\ "error" \in irq /\ C37_Pending # nullptr)
       => reqs'[C37_Pending].status = "ZX_ERR_IO"]_vars

\* What holds instead: the error bit gives ZX_ERR_IO unless a handler that
\* runs before ErrorRecoveryLocked in the same dispatch has completed the
\* request, and then the request keeps that handler's ZX_OK.
C37_ErrorUnlessCompleted ==
  [][(DispatchStep /\ "error" \in irq /\ C37_Pending # nullptr)
       => /\ reqs'[C37_Pending].status \in {"ZX_ERR_IO", "ZX_OK"}
          /\ reqs'[C37_Pending].completions = reqs[C37_Pending].completions + 1
          /\ cmd_req_' = nullptr /\ data_req_' = nullptr
          /\ reqs'[C37_Pending].status = "ZX_OK"
               => irq \cap {"command_complete", "transfer_complete",
                            "buffer_read_ready"} # {}
          /\ irq \cap {"command_complete", "transfer_complete", "buffer_read_ready"} = {}
               => reqs'[C37_Pending].status = "ZX_ERR_IO"]_vars

\* A command without data whose interrupt word carries command-complete and
\* the error bit has been completed with ZX_OK, both resets written.
C37_Witness ==
  /\ irq_pc = "wait"
  /\ \E c \in Callers :
       /\ pc[c] = "wait"
       /\ reqs[c].status = "ZX_OK"
       /\ reqs[c].completions = 1
       /\ ~SdmmcCmdHasData(reqs[c].cmd_flags)
  /\ "SoftwareReset" \in Written(wlog)

\* ---- C38
\* C38: when SdmmcRequest returns, whatever path it took short of a failing
\* zx_pmt_unpin, every pin taken for the request has been released and the
\* request holds no pin handle.
C38_PinsReleased ==
  [][\A c \in Callers :
       (ReturnStep(c) /\ reqs[c].fin # "ZX_ERR_BAD_HANDLE")
         => reqs[c].pinned = 0 /\ reqs[c].pmt = ZX_HANDLE_INVALID]_vars

\* The step of caller c that runs FinishRequest.
C38_FinishStep(c) == pc[c] \in {"failed", "finish"} /\ pc'[c] # pc[c]

\* What holds instead: a request holds at most one pin, and its handle only
\* while pinned; FinishRequest releases the pin and drops the handle unless
\* one of its kernel calls fails, and it neither pins nor unpins for a
\* request without a handle.
C38_ReleasedUnlessFailure ==
  /\ [](\A c \in Callers : /\ reqs[c].pinned \in {0, 1}
                           /\ reqs[c].pmt # ZX_HANDLE_INVALID => reqs[c].pinned = 1)
  /\ [][\A c \in Callers :
          C38_FinishStep(c) =>
            /\ (reqs[c].pmt # ZX_HANDLE_INVALID
                  /\ reqs'[c].fin \notin {"ZX_ERR_OUT_OF_RANGE", "ZX_ERR_BAD_HANDLE"})
                 => reqs'[c].pinned = 0 /\ reqs'[c].pmt = ZX_HANDLE_INVALID
            /\ reqs[c].pmt = ZX_HANDLE_INVALID
                 => reqs'[c].pinned = reqs[c].pinned /\ reqs'[c].pmt = ZX_HANDLE_INVALID]_vars

\* The cache operation of PinRequestPages has failed after the pin:
\* SdmmcRequest is about to return with the pages pinned and no handle.
C38_Witness ==
  \E c \in Callers :
    /\ pc[c] = "failed_return"
    /\ reqs[c].issue = "ZX_ERR_OUT_OF_RANGE"
    /\ reqs[c].fin = "ZX_OK"
    /\ reqs[c].pinned = 1
    /\ reqs[c].pmt = ZX_HANDLE_INVALID

\* The cache operation of FinishRequest has failed after a completed read:
\* SdmmcRequest is about to return with the handle still in the request.
C38_HandleKeptWitness ==
  \E c \in Callers :
    /\ pc[c] = "reset"
    /\ reqs[c].status = "ZX_OK"
    /\ reqs[c].fin = "ZX_ERR_OUT_OF_RANGE"
    /\ reqs[c].pinned = 1
    /\ reqs[c].pmt # ZX_HANDLE_INVALID

\* ---- C39
\* C39: while mtx_ is free, the normal and error bits are set in both
\* interrupt enable registers if a slot is occupied and clear in both if
\* neither is; and with a callback registered the card interrupt bit of
\* InterruptStatusEnable is set exactly when card_interrupt_masked_ is false.
C39_EnablesFollowSlots ==
  mtx_ = NoOwner =>
    /\ Slots # {} =>
         (NormalBits \cup ErrorBits) \subseteq (InterruptSignalEnable \cap InterruptStatusEnable)
    /\ Slots = {} =>
         (NormalBits \cup ErrorBits) \cap (InterruptSignalEnable \cup InterruptStatusEnable) = {}
    /\ interrupt_cb_ =>
         (("card_interrupt" \in InterruptStatusEnable) <=> ~card_interrupt_masked_)

\* A request has been completed, with the callback registered and the card
\* interrupt masked since its dispatch: the mutex free, the slots empty, the
\* enables down to the card interrupt's signal bit.
C39_Witness ==
  /\ mtx_ = NoOwner
  /\ Slots = {}
  /\ interrupt_cb_
  /\ card_interrupt_masked_
  /\ InterruptSignalEnable = CardBit
  /\ InterruptStatusEnable = {}
  /\ \E c \in Callers : pc[c] = "wait" /\ reqs[c].completions = 1

\* A request is pending with the callback registered and the card interrupt
\* not masked.
C39_PendingWitness ==
  /\ mtx_ = NoOwner
  /\ data_req_ # nullptr
  /\ cmd_req_ = nullptr
  /\ interrupt_cb_
  /\ ~card_interrupt_masked_
  /\ InterruptStatusEnable = IrqBits

\* ---- C40
\* C40: in every state where data_done_ is true, cmd_req_ and data_req_ are
\* both occupied and point to the same request; the flag is false whenever
\* either slot is empty. The flag goes from false to true only in a dispatch
\* of transfer-complete.
C40_DataDoneWithBothSlots ==
  /\ [](data_done_ => cmd_req_ # nullptr /\ data_req_ = cmd_req_)
  /\ []((cmd_req_ = nullptr \/ data_req_ = nullptr) => ~data_done_)
  /\ [][(~data_done_ /\ data_done_') => DispatchStep /\ "transfer_complete" \in irq]_vars

\* Transfer-complete has been dispatched ahead of command-complete: the flag
\* is set and the request is still in both slots, waiting for its response.
C40_Witness ==
  /\ data_done_
  /\ mtx_ = NoOwner
  /\ cmd_req_ # nullptr
  /\ data_req_ = cmd_req_
  /\ pc[cmd_req_] = "wait"
  /\ reqs[cmd_req_].completions = 0
====
